---------------------------- MODULE Spec2Model ----------------------------
(***************************************************************************)
(* The TEE worker of permissible_ai: src/workers/tee_server.py (the Flask *)
(* handlers /upload and /execute, the key and dataset registries, the     *)
(* status notifier) and src/workers/query_executor.py (one SQLite         *)
(* container per session).  The server runs with threaded=True, so every  *)
(* request is handled by a worker thread of its own; a handler is cut     *)
(* into steps at each access to state shared between threads (the         *)
(* registries and the container files).                                   *)
(*                                                                         *)
(* Strings whose content the code inspects (query text, dataset names,    *)
(* column headers, table names) are sequences of one-character strings.   *)
(***************************************************************************)
EXTENDS Integers, Sequences, FiniteSets, TLC

(***************************************************************************)
(* Bounds of the model.                                                    *)
(***************************************************************************)
NumThreads == 2
NumSessions == 2
NumDatasets == 2
NumQueryIds == 1
MaxTicks == 2
MaxRequests == 2
MaxIssued == 2
MaxClockTicks == 2
ClockStepHours == 12
MaxNameLen == 3
NumUsers == 2
NumWebThreads == 2
MaxKeyOps == 3

\* api_keys.py:34, the number of active API keys a user may hold
KeyLimit == 10

\* tee_server.py:403, the timeout /execute hands to QueryExecutor.execute_query
QueryTimeout == 30

Threads == 1..NumThreads
Sessions == 1..NumSessions
DatasetIds == 1..NumDatasets
QueryIds == 1..NumQueryIds

\* Python's None for an absent session_id / table_name / registry entry
None == 0

(***************************************************************************)
(* Characters and strings.                                                 *)
(***************************************************************************)
LowerLetters == <<"a","b","c","d","e","f","g","h","i","j","k","l","m",
                  "n","o","p","q","r","s","t","u","v","w","x","y","z">>
UpperLetters == <<"A","B","C","D","E","F","G","H","I","J","K","L","M",
                  "N","O","P","Q","R","S","T","U","V","W","X","Y","Z">>
Digits == {"0","1","2","3","4","5","6","7","8","9"}
Whitespace == {" "}

IsLower(c) == \E i \in 1..26 : LowerLetters[i] = c
IsUpper(c) == \E i \in 1..26 : UpperLetters[i] = c

\* str.upper() and str.lower(), one character
UpperChar(c) ==
    IF IsLower(c) THEN UpperLetters[CHOOSE i \in 1..26 : LowerLetters[i] = c] ELSE c
LowerChar(c) ==
    IF IsUpper(c) THEN LowerLetters[CHOOSE i \in 1..26 : UpperLetters[i] = c] ELSE c

Upper(s) == [i \in 1..Len(s) |-> UpperChar(s[i])]
Lower(s) == [i \in 1..Len(s) |-> LowerChar(s[i])]

\* str.strip()
RECURSIVE LStrip(_)
LStrip(s) == IF s # <<>> /\ Head(s) \in Whitespace THEN LStrip(Tail(s)) ELSE s
RECURSIVE RStrip(_)
RStrip(s) ==
    IF s # <<>> /\ s[Len(s)] \in Whitespace THEN RStrip(SubSeq(s, 1, Len(s) - 1)) ELSE s
Strip(s) == LStrip(RStrip(s))

\* str.startswith(p) and `p in s`
StartsWith(s, p) == Len(s) >= Len(p) /\ SubSeq(s, 1, Len(p)) = p
Contains(s, p) ==
    \E i \in 0..(Len(s) - Len(p)) : SubSeq(s, i + 1, i + Len(p)) = p

\* str(n) for the small identifiers of the model
DigitOf(n) == CASE n = 0 -> "0" [] n = 1 -> "1" [] n = 2 -> "2" [] n = 3 -> "3"
                [] n = 4 -> "4" [] n = 5 -> "5" [] n = 6 -> "6" [] n = 7 -> "7"
                [] n = 8 -> "8" [] n = 9 -> "9"
RECURSIVE IntStr(_)
IntStr(n) == IF n < 10 THEN <<DigitOf(n)>> ELSE IntStr(n \div 10) \o <<DigitOf(n % 10)>>

(***************************************************************************)
(* QueryExecutor._sanitize_table_name                                      *)
(***************************************************************************)
\* (mutant) no character replaced
SafeChar_Unfiltered(c) == c
\* re.sub(r'[^a-z0-9_]', '_', ...), one character
SafeChar(c) == IF IsLower(c) \/ c \in Digits \/ c = "_" THEN c ELSE "_"

_sanitize_table_name(name) ==
    LET sanitized == [i \in 1..Len(name) |-> SafeChar(LowerChar(name[i]))]
        prefixed  == IF sanitized # <<>> /\ ~IsLower(sanitized[1])
                     THEN <<"t","a","b","l","e","_">> \o sanitized
                     ELSE sanitized
    IN  IF prefixed # <<>> THEN prefixed
        ELSE <<"t","a","b","l","e","_","u","n","n","a","m","e","d">>

\* (mutant) the table name derived from the declared name alone
TableName_NameOnly(dataset_id, dataset_name) ==
    <<"d","a","t","a","s","e","t","_">> \o _sanitize_table_name(dataset_name)

\* query_executor.py:135
TableName(dataset_id, dataset_name) ==
    <<"d","a","t","a","s","e","t","_">> \o IntStr(dataset_id) \o <<"_">>
        \o _sanitize_table_name(dataset_name)

\* tee_server.py:272, the name of an upload that declares none
DefaultDatasetName(dataset_id) ==
    <<"d","a","t","a","s","e","t","_">> \o IntStr(dataset_id)


(***************************************************************************)
(* Request inputs.                                                         *)
(***************************************************************************)
\* The Authorization header of an /upload; <<>>: the header is absent
BearerPrefix == <<"B","e","a","r","e","r"," ">>
AuthBearer == BearerPrefix \o <<"x">>
AuthBasic == <<"B","a","s","i","c"," ","x">>
AuthHeaders == {<<>>, AuthBasic, AuthBearer}

\* (mutant) only an absent header is refused
MissingToken_AbsentOnly(auth_header) == auth_header = <<>>
\* tee_server.py:262: not auth_header or not auth_header.startswith('Bearer ')
MissingToken(auth_header) ==
    auth_header = <<>> \/ ~StartsWith(auth_header, BearerPrefix)

\* dataset_name of an /upload; NoName: the field is absent
NoName == <<"?">>
DatasetNameInputs == {NoName, <<"A">>}

\* The decrypted CSV as csv.reader yields it: a sequence of rows, each a
\* sequence of fields; the header's fields are strings the code sanitizes.
CsvValid == << << <<"x">>, <<"y">> >>, << <<"1">>, <<"2">> >>, << <<"3">>, <<"4">> >> >>
CsvHeaderOnly == << << <<"x">>, <<"y">> >> >>
CsvDupCols == << << <<"x">>, <<"X">> >>, << <<"1">>, <<"2">> >> >>
CsvRagged == << << <<"x">>, <<"y">> >>, << <<"1">>, <<"2">> >>, << <<"1">>, <<"2">>, <<"3">> >> >>
\* the 3-column, 5-row file of the end-to-end scenario
CsvFiveRows == << << <<"a">>, <<"b">>, <<"c">> >>,
                 << <<"1">>, <<"2">>, <<"3">> >>, << <<"4">>, <<"5">>, <<"6">> >>,
                 << <<"7">>, <<"8">>, <<"9">> >>, << <<"1">>, <<"2">>, <<"3">> >>,
                 << <<"4">>, <<"5">>, <<"6">> >> >>
CsvInputs == {CsvValid, CsvFiveRows, CsvHeaderOnly, CsvDupCols, CsvRagged}

QSelect1 == <<"S","E","L","E","C","T"," ","1">>
QSelectLower == <<" "," ","s","e","l","e","c","t"," ","1"," ">>
QDrop == <<"D","R","O","P"," ","T","A","B","L","E"," ","d","a","t","a","s","e","t","_","1","_","a">>
QAttach == <<"A","T","T","A","C","H"," ","D","A","T","A","B","A","S","E"," ","x">>
QSelectPragma == <<"s","e","l","e","c","t"," ","'","p","r","a","g","m","a","'">>
QCount == <<"s","e","l","e","c","t"," ","c","o","u","n","t","(","*",")"," ","f","r","o","m"," ","d","a","t","a","s","e","t","_","1","_","a">>
QMulti == <<"S","E","L","E","C","T"," ","1",";"," ","D","R","O","P"," ","T","A","B","L","E"," ","d","a","t","a","s","e","t","_","1","_","a">>
QueryTexts == {QSelect1, QSelectLower, QDrop, QAttach, QSelectPragma, QCount, QMulti}

\* dataset_ids of an /execute: the ascending list of a set of dataset ids
RECURSIVE SortedSeq(_)
SortedSeq(S) ==
    IF S = {} THEN <<>>
    ELSE LET m == CHOOSE x \in S : \A y \in S : x <= y
         IN  <<m>> \o SortedSeq(S \ {m})
DatasetIdLists == {SortedSeq(S) : S \in SUBSET DatasetIds}

(***************************************************************************)
(* Python dict helpers: a dict is a function whose domain is its key set.  *)
(***************************************************************************)
EmptyDict == <<>>
DictSet(D, k, v) == [x \in (DOMAIN D) \cup {k} |-> IF x = k THEN v ELSE D[x]]
DictDel(D, k) == [x \in (DOMAIN D) \ {k} |-> D[x]]

(***************************************************************************)
(* QueryExecutor.execute_query: the checks made before the engine is used. *)
(***************************************************************************)
KwSelect == <<"S","E","L","E","C","T">>
dangerous_keywords ==
    { <<"A","T","T","A","C","H">>, <<"D","E","T","A","C","H">>,
      <<"P","R","A","G","M","A">>, <<"V","A","C","U","U","M">>,
      <<"R","E","I","N","D","E","X">> }

query_upper(query_text) == Upper(Strip(query_text))
\* (mutant) the prefix compared without strip() and upper()
IsSelectQuery_Verbatim(query_text) == StartsWith(query_text, KwSelect)
IsSelectQuery(query_text) == StartsWith(query_upper(query_text), KwSelect)
HasDangerousKeyword(query_text) ==
    \E keyword \in dangerous_keywords : Contains(query_upper(query_text), keyword)

(***************************************************************************)
(* The SQLite engine behind cursor.execute, for the statements of the      *)
(* model: keywords and identifiers are case-insensitive, one statement per *)
(* call, and a write is refused while PRAGMA query_only is ON.             *)
(***************************************************************************)
StmtQueryOnly == <<"P","R","A","G","M","A"," ","q","u","e","r","y","_","o","n","l","y"," ","="," ","O","N">>
StmtSelect1 == <<"S","E","L","E","C","T"," ","1">>
StmtCountFrom == <<"S","E","L","E","C","T"," ","C","O","U","N","T","(","*",")"," ","F","R","O","M"," ">>
StmtDropTable == <<"D","R","O","P"," ","T","A","B","L","E"," ">>

\* the part after prefix p
After(s, p) == SubSeq(s, Len(p) + 1, Len(s))
\* the table of the container that identifier `ident` names, or <<>>
LookupTable(tables, ident) ==
    IF \E tn \in DOMAIN tables : Upper(tn) = Upper(ident)
    THEN CHOOSE tn \in DOMAIN tables : Upper(tn) = Upper(ident)
    ELSE <<>>
\* more than one statement in the text
IsMultiStatement(stmt) ==
    \E i \in 1..Len(stmt) : stmt[i] = ";" /\ Strip(SubSeq(stmt, i + 1, Len(stmt))) # <<>>

EngineRun(container, statement, query_only) ==
    LET stmt == Upper(Strip(statement))
        err(e) == [ok |-> FALSE, error |-> e, rows |-> <<>>, container |-> container]
    IN  IF IsMultiStatement(stmt) THEN err("one_statement_at_a_time")
        ELSE IF stmt = StmtSelect1
        THEN [ok |-> TRUE, error |-> "", rows |-> << <<1>> >>, container |-> container]
        ELSE IF StartsWith(stmt, StmtCountFrom)
        THEN LET tn == LookupTable(container.tables, After(stmt, StmtCountFrom))
             IN  IF tn = <<>> THEN err("no_such_table")
                 ELSE [ok |-> TRUE, error |-> "",
                       rows |-> << <<Len(container.tables[tn].rows)>> >>,
                       container |-> container]
        ELSE IF StartsWith(stmt, StmtDropTable)
        THEN LET tn == LookupTable(container.tables, After(stmt, StmtDropTable))
             IN  IF tn = <<>> THEN err("no_such_table")
                 ELSE IF query_only THEN err("readonly_database")
                 ELSE [ok |-> TRUE, error |-> "", rows |-> <<>>,
                       container |-> [container EXCEPT !.tables = DictDel(@, tn)]]
        ELSE err("syntax_error")

(***************************************************************************)
(* Identity keypair, code measurement and the attestation document         *)
(* (tee_server.py:71-236).  Keys, digests and signatures are symbolic: a   *)
(* key is known by the pair it belongs to, a digest by what was hashed, a  *)
(* signature by its signer and the bytes signed.                           *)
(***************************************************************************)
\* timedelta(hours=24), tee_server.py:209
ExpiryHours == 24

\* a global that is still None
Unset == "None"
\* JSON null, for a metadata field that could not be fetched
Null == "null"

PrivateKey(pair) == [pair |-> pair, half |-> "private"]
PublicKey(pair) == [pair |-> pair, half |-> "public"]
NoKey == [pair |-> Unset, half |-> Unset]

\* public_bytes(PEM, SubjectPublicKeyInfo).decode('utf-8') and its reading
PublicPem(public_key) == [pem |-> "PUBLIC KEY", of |-> public_key.pair]
LoadPublicPem(pem) == PublicKey(pem.of)

\* hashlib.sha256(x).hexdigest()
Sha256(x) == [sha256 |-> x]
NoDigest == [sha256 |-> Unset]
\* the digest in /opt/tee-runtime/CODE_HASH.txt, and the bytes of __file__
PrecomputedDigest == [sha256 |-> "image build"]
CodeBytes == "tee_server.py"

\* tee_server.py:71-118: the pair baked into the image when both files
\* exist, an ephemeral pair otherwise
load_tee_keypair(key_files) ==
    LET pair == IF key_files THEN "image" ELSE "ephemeral"
    IN  [TEE_PRIVATE_KEY |-> PrivateKey(pair), TEE_PUBLIC_KEY |-> PublicKey(pair)]

\* (mutant) the measurement always hashed at runtime
calculate_code_measurement_RuntimeOnly(hash_file) == Sha256(CodeBytes)
\* tee_server.py:134-149
calculate_code_measurement(hash_file) ==
    IF hash_file THEN PrecomputedDigest ELSE Sha256(CodeBytes)

\* tee_server.py:152-160: image_name of IMAGE_INFO.json, when the file exists
LoadImageId(image_info) == IF image_info THEN "image_name" ELSE Unset

\* the metadata server's value for a key
MetadataKeys == <<"instance/id", "instance/name", "instance/zone">>
MetadataValue(key) == [metadata |-> key]
NoMetadata == [metadata |-> Null]
\* what a fetch can come to: 200, another status, or an exception of
\* requests (connection refused, timeout after 2 s)
FetchOutcomes == {"ok", "not_200", "timeout"}

\* (mutant) the fetch without its except clause
get_instance_metadata_Raising(key, outcome) ==
    [raised |-> outcome = "timeout",
     value |-> IF outcome = "ok" THEN MetadataValue(key) ELSE NoMetadata]
\* tee_server.py:121-131
get_instance_metadata(key, outcome) ==
    [raised |-> FALSE,
     value |-> IF outcome = "ok" THEN MetadataValue(key) ELSE NoMetadata]

\* tee_server.py:191-217, attestation_data
AttestationData(g, instance_id, instance_name, zone, now) ==
    [tee_type |-> "gcp_confidential_vm",
     code_measurement |-> g.TEE_CODE_HASH,
     image_id |-> g.TEE_IMAGE_ID,
     instance_id |-> instance_id,
     instance_name |-> instance_name,
     zone |-> zone,
     public_key |-> PublicPem(g.TEE_PUBLIC_KEY),
     generated_at |-> now,
     expires_at |-> now + ExpiryHours,
     confidential_computing |-> TRUE,
     secure_boot |-> TRUE,
     ssh_disabled |-> TRUE,
     immutable_code |-> TRUE]

\* the keys of attestation_data as Python's sorted() orders them, and as
\* the dict literal lists them
SortedKeys ==
    <<"code_measurement", "confidential_computing", "expires_at", "generated_at",
      "image_id", "immutable_code", "instance_id", "instance_name", "public_key",
      "secure_boot", "ssh_disabled", "tee_type", "zone">>
LiteralKeys ==
    <<"tee_type", "code_measurement", "image_id", "instance_id", "instance_name",
      "zone", "public_key", "generated_at", "expires_at", "confidential_computing",
      "secure_boot", "ssh_disabled", "immutable_code">>

\* (mutant) json.dumps without sort_keys
attestation_json_Unsorted(data) ==
    [i \in 1..Len(LiteralKeys) |-> <<LiteralKeys[i], data[LiteralKeys[i]]>>]
\* tee_server.py:220: json.dumps(attestation_data, sort_keys=True)
attestation_json(data) ==
    [i \in 1..Len(SortedKeys) |-> <<SortedKeys[i], data[SortedKeys[i]]>>]

\* RSA-PSS/SHA-256 signature and its verification
Sign(private_key, message) == [signer |-> private_key.pair, message |-> message]
NoSignature == [signer |-> Unset, message |-> <<>>]
Verify(public_key, message, signature) ==
    /\ signature.signer = public_key.pair
    /\ signature.message = message

(***************************************************************************)
(* The ciphers of /upload (tee_server.py:276-294, 345-348), symbolic: a    *)
(* ciphertext is known by the key and nonce it was made under and by what  *)
(* it encrypts.                                                            *)
(***************************************************************************)
\* plaintext_data: bytes that decode as UTF-8 to a CSV text, or do not
Plaintext(csv) == [utf8 |-> TRUE, csv |-> csv]
NotUtf8 == [utf8 |-> FALSE, csv |-> <<>>]
NoPlaintext == [utf8 |-> FALSE, csv |-> <<>>]
Payloads == {Plaintext(csv) : csv \in CsvInputs} \cup {NotUtf8}

\* RSA-OAEP (SHA-256): the client wraps its AES key under a public key
RsaOaepEncrypt(public_key, key) == [wrapped_for |-> public_key.pair, key |-> key]
\* TEE_PRIVATE_KEY.decrypt(encrypted_key, OAEP), tee_server.py:280-287
RsaOaepDecrypt(private_key, encrypted_key) ==
    [ok |-> encrypted_key.wrapped_for = private_key.pair,
     key |-> IF encrypted_key.wrapped_for = private_key.pair
             THEN encrypted_key.key ELSE None]

\* AESGCM(key).encrypt(nonce, data, None)
AesGcmEncrypt(key, nonce, data) ==
    [key |-> key, nonce |-> nonce, data |-> data, intact |-> TRUE]
\* a ciphertext altered in transit
Tampered(ciphertext) == [ciphertext EXCEPT !.intact = FALSE]
\* (mutant) decryption that does not authenticate
AesGcmDecrypt_Unauthenticated(key, nonce, ciphertext) ==
    [ok |-> TRUE, data |-> ciphertext.data]
\* AESGCM(key).decrypt(nonce, data, None): InvalidTag unless key, nonce and
\* ciphertext are those of the encryption
AesGcmDecrypt(key, nonce, ciphertext) ==
    LET authentic == /\ ciphertext.key = key /\ ciphertext.nonce = nonce
                     /\ ciphertext.intact
    IN  [ok |-> authentic, data |-> IF authentic THEN ciphertext.data ELSE NoPlaintext]

\* the client's AES key and nonce, and another key and nonce
ClientKey == -1
ClientNonce == -1
WrongKey == -2
WrongNonce == -2

\* the bundles a client can send: well-formed, the AES key wrapped under
\* another public key, the data encrypted under another key than the
\* wrapped one, another nonce than the one used, a ciphertext altered
BundleShapes ==
    {"good", "wrapped_for_other", "wrong_data_key", "wrong_nonce", "tampered"}
ClientBundle(shape, payload, tee_public_key) ==
    [encrypted_key |->
         RsaOaepEncrypt(IF shape = "wrapped_for_other" THEN PublicKey("other")
                        ELSE tee_public_key, ClientKey),
     encrypted_data |->
         LET ciphertext == AesGcmEncrypt(IF shape = "wrong_data_key" THEN WrongKey
                                         ELSE ClientKey, ClientNonce, payload)
         IN  IF shape = "tampered" THEN Tampered(ciphertext) ELSE ciphertext,
     iv |-> IF shape = "wrong_nonce" THEN WrongNonce ELSE ClientNonce]

\* tee_server.py:276-302: unwrap the AES key, decrypt the data, decode it
DecryptBundle(data, tee_private_key) ==
    LET unwrap == RsaOaepDecrypt(tee_private_key, data.encrypted_key)
        dec == AesGcmDecrypt(unwrap.key, data.iv, data.encrypted_data)
    IN  IF ~unwrap.ok THEN [outcome |-> "key_unwrap_failed", plaintext |-> NoPlaintext]
        ELSE IF ~dec.ok THEN [outcome |-> "aead_failed", plaintext |-> NoPlaintext]
        ELSE IF ~dec.data.utf8 THEN [outcome |-> "not_utf8", plaintext |-> dec.data]
        ELSE [outcome |-> "ok", plaintext |-> dec.data]

\* the text of a CSV: fields joined by commas, rows ended by newlines
RECURSIVE Join(_, _)
Join(seqs, sep) ==
    IF seqs = <<>> THEN <<>>
    ELSE IF Len(seqs) = 1 THEN seqs[1]
    ELSE seqs[1] \o sep \o Join(Tail(seqs), sep)
CsvLine(row) == Join(row, <<",">>)
CsvText(csv) == Join([i \in 1..Len(csv) |-> CsvLine(csv[i]) \o <<"\n">>], <<>>)
\* len(plaintext_data)
PlaintextSize(plaintext) == IF plaintext.utf8 THEN Len(CsvText(plaintext.csv)) ELSE 1

(***************************************************************************)
(* Log records: the source line of the logger call, the numbers and the    *)
(* text it formats into the message, and the error it reports.             *)
(***************************************************************************)
Log(file, line, n, text, error) ==
    [file |-> file, line |-> line, n |-> n, text |-> text, error |-> error]
TS == "tee_server.py"
QE == "query_executor.py"
\* (mutant) the decrypted content logged
LogDecrypted_Content(plaintext) == Log(TS, 296, <<>>, CsvText(plaintext.csv), "")
\* tee_server.py:296: "Successfully decrypted {len(plaintext_data)} bytes"
LogDecrypted(plaintext) == Log(TS, 296, <<PlaintextSize(plaintext)>>, <<>>, "")
\* len(encrypted_key) of a 4096-bit RSA ciphertext, tee_server.py:278
EncryptedKeyLength == 512

(***************************************************************************)
(* State.                                                                  *)
(***************************************************************************)
VARIABLES
    th,            \* the worker threads: the request each is handling
    SESSION_KEYS,  \* tee_server.SESSION_KEYS: session_id -> key
    DATASETS,      \* tee_server.DATASETS: dataset_id -> Dataset Record
    db,            \* the container file of each session (QueryExecutor._get_db_path)
    nextKey,       \* the next key AESGCM.generate_key returns (keys are fresh)
    requests,      \* requests received so far
    tee,           \* the identity and measurement globals of tee_server, and
                   \* the files and the clock of the instance they come from
    issued,        \* the /attestation responses sent so far
    san,           \* a call of QueryExecutor._sanitize_table_name and its result
    api_keys,      \* web_api: the api_keys table and the requests that use it
    plane          \* web_api: sessions, queries and approvals of the control plane

vars == <<th, SESSION_KEYS, DATASETS, db, nextKey, requests, tee, issued, san, api_keys, plane>>

\* no response body sent (yet)
NoBody == [status |-> ""]

IdleThread ==
    [kind |-> "idle", pc |-> "idle", bearer |-> FALSE,
     bundle |-> "", crypto |-> "", created |-> "", body |-> NoBody, logged |-> <<>>,
     dataset_id |-> 0, session_id |-> None, dataset_name |-> <<>>, csv |-> <<>>,
     storage_key |-> None, table_name |-> <<>>, row_count |-> 0,
     query_id |-> 0, query_text |-> <<>>, dataset_ids |-> <<>>, authIdx |-> 0,
     engine |-> <<>>, elapsed |-> 0, rows |-> <<>>,
     resp |-> 0, err |-> "", notified |-> <<>>]

\* a session whose container file does not exist
AbsentContainer ==
    [exists |-> FALSE, hasMeta |-> FALSE, meta |-> EmptyDict, tables |-> EmptyDict,
     wlock |-> 0]

\* the process before __main__ has run: the module globals are None; the
\* files of the image are there or not
Unstarted(key_files, hash_file, image_info) ==
    [key_files |-> key_files, hash_file |-> hash_file, image_info |-> image_info,
     started |-> FALSE, clock |-> 0,
     TEE_PRIVATE_KEY |-> NoKey, TEE_PUBLIC_KEY |-> NoKey,
     TEE_CODE_HASH |-> NoDigest, TEE_IMAGE_ID |-> Unset]

\* tee_server.py:480-515, __main__ up to app.run: the keypair is loaded or
\* generated and the code measurement computed, once
Started(g) ==
    [g EXCEPT !.started = TRUE,
              !.TEE_PRIVATE_KEY = load_tee_keypair(g.key_files).TEE_PRIVATE_KEY,
              !.TEE_PUBLIC_KEY = load_tee_keypair(g.key_files).TEE_PUBLIC_KEY,
              !.TEE_CODE_HASH = calculate_code_measurement(g.hash_file),
              !.TEE_IMAGE_ID = LoadImageId(g.image_info)]

\* the web application not under observation
NoKeys == [table |-> <<>>]
NoPlane == [sessions |-> <<>>]

\* no call of _sanitize_table_name under observation
NoSanitize == [name |-> <<>>, calls |-> 0, out |-> <<>>, again |-> <<>>]

\* the worker as app.run starts serving: empty registries, no container
InitWorker ==
    /\ th = [t \in Threads |-> IdleThread]
    /\ SESSION_KEYS = EmptyDict
    /\ DATASETS = EmptyDict
    /\ db = [s \in Sessions |-> AbsentContainer]
    /\ nextKey = 1
    /\ requests = 0

Init ==
    /\ InitWorker
    /\ tee = Started(Unstarted(TRUE, TRUE, TRUE))
    /\ issued = <<>>
    /\ san = NoSanitize
    /\ api_keys = NoKeys /\ plane = NoPlane

(***************************************************************************)
(* Helpers of the handlers.                                                *)
(***************************************************************************)
\* notify_control_plane: one POST to the control plane; a transport failure
\* is logged and swallowed, so the caller sees no difference
Report(entity_type, entity_id, status, delivered) ==
    [entity_type |-> entity_type, entity_id |-> entity_id, status |-> status,
     delivered |-> delivered]

\* (mutant) the notifier without its except clause: a failed POST raises
notify_control_plane_Raising(entity_id, status, is_query, delivered) ==
    [raised |-> ~delivered,
     report |-> Report(IF is_query THEN "query" ELSE "dataset", entity_id, status,
                       delivered)]

\* tee_server.py:451-477: the POST is made inside try / except Exception, so
\* the call returns normally whether or not the report was delivered
notify_control_plane(entity_id, status, is_query, delivered) ==
    [raised |-> FALSE,
     report |-> Report(IF is_query THEN "query" ELSE "dataset", entity_id, status,
                       delivered)]

\* the response of a request whose handler let an exception escape: Flask's
\* own 500 page, not a JSON body of the handler
UnhandledError == "unhandled_exception"

\* the text an error message carries besides its fixed wording: the table
\* name of "Table ... already exists" (query_executor.py:153)
ErrorText(r, e) ==
    IF e \in {"table_already_exists", "engine_table_exists"} THEN r.table_name ELSE <<>>

\* what a failing /upload logs: load_dataset's except clause
\* (query_executor.py:194-196) when the error is raised inside its try
\* block, then the handler's (tee_server.py:371-373); the 403 of /execute
\* logs nothing
FailureLogs(r, e) ==
    IF r.kind # "upload" THEN <<>>
    ELSE (IF r.pc \in {"load_parse", "load_check_table", "load_create_table",
                       "load_insert"}
          THEN <<Log(QE, 195, <<r.dataset_id>>, ErrorText(r, e), e)>>
          ELSE <<>>)
         \o <<Log(TS, 372, <<>>, ErrorText(r, e), e)>>

\* jsonify({'error': ...}): the body of an error response
ErrorBody(e) == [error |-> e]

\* the handler returns: HTTP status `code`, error kind `e`, reports `notes`
Respond(t, code, e, notes) ==
    th' = [th EXCEPT ![t].pc = "done", ![t].resp = code, ![t].err = e,
                     ![t].notified = @ \o notes, ![t].body = ErrorBody(e),
                     ![t].logged = @ \o FailureLogs(th[t], e)]

\* another connection holds the container's write lock
LockedByOther(t, s) == db[s].wlock \notin {0, t}

\* (mutant) the validation without its check for a data row
UploadCsvError_NoRowCheck(csv) ==
    IF csv = <<>> THEN "csv_empty_or_malformed"
    ELSE IF csv[1] = <<>> THEN "csv_no_header"
    ELSE ""

\* csv validation of upload_dataset (tee_server.py:304-322): "" when valid
UploadCsvError(csv) ==
    IF csv = <<>> THEN "csv_empty_or_malformed"
    ELSE IF csv[1] = <<>> THEN "csv_no_header"
    ELSE IF Len(csv) < 2 THEN "csv_no_data_rows"
    ELSE ""

\* the row count of a session-less upload (tee_server.py:343): the lines of
\* the text less the header; the CSVs of the model hold one row per line
IndependentRowCount(csv) == Len(csv) - 1

\* parsing in load_dataset (query_executor.py:119-141): "" when valid
SanitizedColumns(headers) == [i \in 1..Len(headers) |-> _sanitize_table_name(headers[i])]
LoadCsvError(csv) ==
    IF csv = <<>> THEN "csv_stop_iteration"
    ELSE IF csv[1] = <<>> THEN "csv_no_header"
    ELSE IF Len(csv[1]) # Cardinality({SanitizedColumns(csv[1])[i] : i \in 1..Len(csv[1])})
         THEN "duplicate_columns"
    ELSE IF Tail(csv) = <<>> THEN "csv_no_data_rows"
    ELSE ""

\* keys of the _session_metadata table
MetaSessionId == <<"s","e","s","s","i","o","n","_","i","d">>
MetaCreatedAt == <<"c","r","e","a","t","e","d","_","a","t">>
MetaDatasetTable(dataset_id) ==
    <<"d","a","t","a","s","e","t","_">> \o IntStr(dataset_id) \o <<"_","t","a","b","l","e">>
MetaDatasetLoadedAt(dataset_id) ==
    <<"d","a","t","a","s","e","t","_">> \o IntStr(dataset_id)
        \o <<"_","l","o","a","d","e","d","_","a","t">>
\* datetime.utcnow().isoformat(): the model keeps no clock for it
Timestamp == <<"u","t","c">>

(***************************************************************************)
(* POST /upload  (tee_server.upload_dataset)                               *)
(***************************************************************************)
\* tee_server.py:259-322: bearer check, request fields, hybrid decryption,
\* UTF-8 decoding and CSV validation; all of it local to the thread.  The
\* request's fields are drawn where the handler first depends on them: the
\* body is not read without a bearer credential, nor the plaintext parsed
\* when decryption fails.
UploadBegin(t) ==
    /\ th[t].pc = "idle"
    /\ requests < MaxRequests
    /\ requests' = requests + 1
    /\ UNCHANGED <<SESSION_KEYS, DATASETS, db, nextKey, tee, issued, san, api_keys, plane>>
    /\ \E auth_header \in AuthHeaders :
         IF MissingToken(auth_header)
         THEN th' = [th EXCEPT ![t] = [IdleThread EXCEPT !.kind = "upload",
                        !.bearer = StartsWith(auth_header, BearerPrefix),
                        !.pc = "done", !.resp = 401, !.err = "missing_token",
                        !.body = ErrorBody("missing_token")]]
         ELSE \E d \in DatasetIds, s \in Sessions \cup {None},
                 nm \in DatasetNameInputs, shape \in BundleShapes,
                 payload \in Payloads :
                LET data == ClientBundle(shape, payload, tee.TEE_PUBLIC_KEY)
                    dec == DecryptBundle(data, tee.TEE_PRIVATE_KEY)
                    csv == dec.plaintext.csv
                    req == [IdleThread EXCEPT !.kind = "upload",
                               !.bearer = StartsWith(auth_header, BearerPrefix),
                               !.bundle = shape, !.crypto = dec.outcome,
                               !.dataset_id = d, !.session_id = s,
                               !.dataset_name =
                                   IF nm = NoName THEN DefaultDatasetName(d) ELSE nm,
                               !.logged = <<Log(TS, 274, <<d, s>>, <<>>, ""),
                                            Log(TS, 278, <<EncryptedKeyLength>>, <<>>, "")>>]
                    failed(r, e) == [r EXCEPT !.pc = "done", !.resp = 500, !.err = e,
                                        !.body = ErrorBody(e),
                                        !.logged = @ \o <<Log(TS, 372, <<>>, <<>>, e)>>]
                IN  IF dec.outcome \in {"key_unwrap_failed", "aead_failed"}
                    THEN th' = [th EXCEPT ![t] = failed(req, dec.outcome)]
                    ELSE LET decrypted ==
                                 [req EXCEPT !.logged = @ \o <<LogDecrypted(dec.plaintext)>>]
                         IN  IF dec.outcome = "not_utf8"
                             THEN th' = [th EXCEPT ![t] = failed(decrypted, "not_utf8")]
                             ELSE IF UploadCsvError(csv) # ""
                             THEN th' = [th EXCEPT ![t] =
                                     failed([decrypted EXCEPT !.csv = csv],
                                            UploadCsvError(csv))]
                             ELSE th' = [th EXCEPT ![t] =
                                     [decrypted EXCEPT !.csv = csv,
                                         !.logged = @ \o
                                             <<Log(TS, 318, <<Len(csv[1])>>, <<>>, "")>>,
                                         !.pc = IF s # None THEN "key_check"
                                                ELSE "store"]]

\* get_or_create_session_key, tee_server.py:445: session_id not in SESSION_KEYS
GetKeyCheck(t) ==
    /\ th[t].pc = "key_check"
    /\ th' = [th EXCEPT ![t].pc =
                 IF th[t].session_id \in DOMAIN SESSION_KEYS
                 THEN "key_return" ELSE "key_create"]
    /\ UNCHANGED <<SESSION_KEYS, DATASETS, db, nextKey, requests, tee, issued, san, api_keys, plane>>

\* tee_server.py:446: SESSION_KEYS[session_id] = AESGCM.generate_key(...)
GetKeyCreate(t) ==
    /\ th[t].pc = "key_create"
    /\ SESSION_KEYS' = DictSet(SESSION_KEYS, th[t].session_id, nextKey)
    /\ nextKey' = nextKey + 1
    /\ th' = [th EXCEPT ![t].pc = "key_return",
                        ![t].logged = @ \o <<Log(TS, 447, <<th[t].session_id>>, <<>>, "")>>]
    /\ UNCHANGED <<DATASETS, db, requests, tee, issued, san, api_keys, plane>>

\* tee_server.py:448: return SESSION_KEYS[session_id]
GetKeyReturn(t) ==
    /\ th[t].pc = "key_return"
    /\ th' = [th EXCEPT ![t].storage_key = SESSION_KEYS[th[t].session_id],
                        ![t].pc = "load_exists"]
    /\ UNCHANGED <<SESSION_KEYS, DATASETS, db, nextKey, requests, tee, issued, san, api_keys, plane>>

(***************************************************************************)
(* QueryExecutor.load_dataset and create_session_database                  *)
(***************************************************************************)
\* query_executor.py:113-116
LoadExistsCheck(t) ==
    /\ th[t].pc = "load_exists"
    /\ th' = [th EXCEPT ![t].pc =
                 IF ~db[th[t].session_id].exists THEN "create_exists" ELSE "load_parse"]
    /\ UNCHANGED <<SESSION_KEYS, DATASETS, db, nextKey, requests, tee, issued, san, api_keys, plane>>

\* (mutant) creation without its early return
AlreadyCreated_Never(container) == FALSE
\* query_executor.py:63: db_path.exists()
AlreadyCreated(container) == container.exists

\* query_executor.py:61-65: an existing container is left alone
CreateExistsCheck(t) ==
    /\ th[t].pc = "create_exists"
    /\ th' = IF AlreadyCreated(db[th[t].session_id])
             THEN [th EXCEPT ![t].pc = "load_parse", ![t].created = "existed",
                      ![t].logged = @ \o <<Log(QE, 64, <<th[t].session_id>>, <<>>, "")>>]
             ELSE [th EXCEPT ![t].pc = "create_connect"]
    /\ UNCHANGED <<SESSION_KEYS, DATASETS, db, nextKey, requests, tee, issued, san, api_keys, plane>>

\* query_executor.py:68-69: sqlite3.connect creates the (empty) file
CreateConnect(t) ==
    /\ th[t].pc = "create_connect"
    /\ db' = [db EXCEPT ![th[t].session_id].exists = TRUE]
    /\ th' = [th EXCEPT ![t].pc = "create_table"]
    /\ UNCHANGED <<SESSION_KEYS, DATASETS, nextKey, requests, tee, issued, san, api_keys, plane>>

\* query_executor.py:72-77: CREATE TABLE _session_metadata, committed at once
\* (Python's sqlite3 opens no transaction for DDL)
CreateMetaTable(t) ==
    LET s == th[t].session_id
    IN  /\ th[t].pc = "create_table"
        /\ IF db[s].hasMeta
           THEN /\ Respond(t, 500, "metadata_table_exists", <<>>)
                /\ UNCHANGED db
           ELSE /\ ~LockedByOther(t, s)
                /\ db' = [db EXCEPT ![s].hasMeta = TRUE]
                /\ th' = [th EXCEPT ![t].pc = "create_insert"]
        /\ UNCHANGED <<SESSION_KEYS, DATASETS, nextKey, requests, tee, issued, san, api_keys, plane>>

\* query_executor.py:79-92: the two INSERTs and the commit, one transaction
CreateInsertCommit(t) ==
    LET s == th[t].session_id
    IN  /\ th[t].pc = "create_insert"
        /\ ~LockedByOther(t, s)
        /\ IF MetaSessionId \in DOMAIN db[s].meta \/ MetaCreatedAt \in DOMAIN db[s].meta
           THEN /\ Respond(t, 500, "integrity_error", <<>>)
                /\ UNCHANGED db
           ELSE /\ db' = [db EXCEPT ![s].meta =
                            DictSet(DictSet(@, MetaSessionId, IntStr(s)),
                                    MetaCreatedAt, Timestamp)]
                /\ th' = [th EXCEPT ![t].pc = "load_parse", ![t].created = "created",
                              ![t].logged = @ \o <<Log(QE, 92, <<s>>, <<>>, "")>>]
        /\ UNCHANGED <<SESSION_KEYS, DATASETS, nextKey, requests, tee, issued, san, api_keys, plane>>

\* query_executor.py:119-145: parse, sanitize, derive the table name, connect
LoadParse(t) ==
    /\ th[t].pc = "load_parse"
    /\ IF LoadCsvError(th[t].csv) # ""
       THEN Respond(t, 500, LoadCsvError(th[t].csv), <<>>)
       ELSE th' = [th EXCEPT ![t].pc = "load_check_table",
                      ![t].table_name = TableName(th[t].dataset_id, th[t].dataset_name)]
    /\ UNCHANGED <<SESSION_KEYS, DATASETS, db, nextKey, requests, tee, issued, san, api_keys, plane>>

\* (mutant) the lookup finds nothing
TableExists_Never(container, table_name) == FALSE
\* query_executor.py:148-152: SELECT name FROM sqlite_master WHERE
\* type='table' AND name=?  (an exact comparison of the name)
TableExists(container, table_name) == table_name \in DOMAIN container.tables

\* query_executor.py:147-153
LoadCheckTable(t) ==
    /\ th[t].pc = "load_check_table"
    /\ IF TableExists(db[th[t].session_id], th[t].table_name)
       THEN Respond(t, 500, "table_already_exists", <<>>)
       ELSE th' = [th EXCEPT ![t].pc = "load_create_table"]
    /\ UNCHANGED <<SESSION_KEYS, DATASETS, db, nextKey, requests, tee, issued, san, api_keys, plane>>

\* query_executor.py:157-159: CREATE TABLE, committed at once (DDL)
LoadCreateTable(t) ==
    LET s == th[t].session_id
    IN  /\ th[t].pc = "load_create_table"
        /\ IF th[t].table_name \in DOMAIN db[s].tables
           THEN /\ Respond(t, 500, "engine_table_exists", <<>>)
                /\ UNCHANGED db
           ELSE /\ ~LockedByOther(t, s)
                /\ db' = [db EXCEPT ![s].tables = DictSet(@, th[t].table_name,
                             [columns |-> SanitizedColumns(th[t].csv[1]), rows |-> <<>>])]
                /\ th' = [th EXCEPT ![t].pc = "load_insert"]
        /\ UNCHANGED <<SESSION_KEYS, DATASETS, nextKey, requests, tee, issued, san, api_keys, plane>>

\* query_executor.py:162-174: executemany opens the transaction and inserts
\* the rows, then the two metadata rows; nothing is visible before commit
LoadInsert(t) ==
    LET s == th[t].session_id
        rows == Tail(th[t].csv)
        ncols == Len(th[t].csv[1])
    IN  /\ th[t].pc = "load_insert"
        /\ ~LockedByOther(t, s)
        /\ IF \E i \in 1..Len(rows) : Len(rows[i]) # ncols
           THEN /\ Respond(t, 500, "incorrect_number_of_bindings", <<>>)
                /\ UNCHANGED db
           ELSE IF ~db[s].hasMeta
           THEN /\ Respond(t, 500, "no_metadata_table", <<>>)
                /\ UNCHANGED db
           ELSE IF MetaDatasetTable(th[t].dataset_id) \in DOMAIN db[s].meta
                   \/ MetaDatasetLoadedAt(th[t].dataset_id) \in DOMAIN db[s].meta
           THEN /\ Respond(t, 500, "integrity_error", <<>>)
                /\ UNCHANGED db
           ELSE /\ db' = [db EXCEPT ![s].wlock = t]
                /\ th' = [th EXCEPT ![t].pc = "load_commit"]
        /\ UNCHANGED <<SESSION_KEYS, DATASETS, nextKey, requests, tee, issued, san, api_keys, plane>>

\* (mutant) the header counted as a row
LoadedRowCount_WithHeader(csv) == Len(csv)
\* query_executor.py:137 and 178: rows = list(csv_reader) after the header
\* was read; row_count = len(rows)
LoadedRowCount(csv) == Len(Tail(csv))

\* query_executor.py:176-192: conn.commit(), close, return
LoadCommit(t) ==
    LET s == th[t].session_id
        rows == Tail(th[t].csv)
    IN  /\ th[t].pc = "load_commit"
        /\ db' = [db EXCEPT
                    ![s].tables[th[t].table_name].rows = rows,
                    ![s].meta = DictSet(DictSet(@, MetaDatasetTable(th[t].dataset_id),
                                                th[t].table_name),
                                        MetaDatasetLoadedAt(th[t].dataset_id), Timestamp),
                    ![s].wlock = 0]
        /\ th' = [th EXCEPT ![t].pc = "store", ![t].row_count = LoadedRowCount(th[t].csv),
                      ![t].logged = @ \o
                          <<Log(QE, 180, <<th[t].dataset_id, s, LoadedRowCount(th[t].csv),
                                           Len(th[t].csv[1])>>, th[t].table_name, "")>>]
        /\ UNCHANGED <<SESSION_KEYS, DATASETS, nextKey, requests, tee, issued, san, api_keys, plane>>

\* sqlite3's busy handler gives up (connect's default timeout): the write
\* raises "database is locked"
BusyTimeout(t) ==
    /\ th[t].pc \in {"create_table", "create_insert", "load_create_table", "load_insert"}
    /\ LockedByOther(t, th[t].session_id)
    /\ Respond(t, 500, "database_is_locked", <<>>)
    /\ UNCHANGED <<SESSION_KEYS, DATASETS, db, nextKey, requests, tee, issued, san, api_keys, plane>>

\* tee_server.py:338-369: the storage key of a session-less upload, the
\* re-encryption, DATASETS[dataset_id] = {...}, and the response
\* (mutant) a table name recorded for every upload
DatasetRecord_Named(r, key, storage_iv) ==
    [session_id |-> r.session_id, storage_key |-> key,
     encrypted_data |-> AesGcmEncrypt(key, storage_iv, Plaintext(r.csv)),
     iv |-> storage_iv,
     checksum |-> Sha256(Plaintext(r.csv)),
     table_name |-> TableName(r.dataset_id, r.dataset_name),
     row_count |-> IF r.session_id # None THEN r.row_count
                   ELSE IndependentRowCount(r.csv)]

DatasetRecord(r, key, storage_iv) ==
    [session_id |-> r.session_id, storage_key |-> key,
     encrypted_data |-> AesGcmEncrypt(key, storage_iv, Plaintext(r.csv)),
     iv |-> storage_iv,
     checksum |-> Sha256(Plaintext(r.csv)),
     table_name |-> r.table_name,
     row_count |-> IF r.session_id # None THEN r.row_count
                   ELSE IndependentRowCount(r.csv)]

\* (mutant) the stored record returned to the client
UploadResponse_WholeRecord(dataset_id, record) ==
    [status |-> "success", dataset_id |-> dataset_id, checksum |-> record.checksum,
     row_count |-> record.row_count, storage_key |-> record.storage_key]
\* tee_server.py:364-369, the JSON body of a successful upload
UploadResponse(dataset_id, record) ==
    [status |-> "success", dataset_id |-> dataset_id, checksum |-> record.checksum,
     row_count |-> record.row_count]

\* nextKey is the source of fresh random values: the key of
\* AESGCM.generate_key (tee_server.py:340) and the nonce of os.urandom(12)
\* (tee_server.py:346)
UploadStore(t) ==
    LET independent == th[t].session_id = None
        key == IF independent THEN nextKey ELSE th[t].storage_key
        storage_iv == IF independent THEN nextKey + 1 ELSE nextKey
        record == DatasetRecord(th[t], key, storage_iv)
    IN  /\ th[t].pc = "store"
        /\ nextKey' = storage_iv + 1
        /\ DATASETS' = DictSet(DATASETS, th[t].dataset_id, record)
        /\ th' = [th EXCEPT ![t].pc = "done", ![t].resp = 200,
                            ![t].storage_key = key,
                            ![t].row_count = record.row_count,
                            ![t].body = UploadResponse(th[t].dataset_id, record)]
        /\ UNCHANGED <<SESSION_KEYS, db, requests, tee, issued, san, api_keys, plane>>

(***************************************************************************)
(* POST /execute  (tee_server.execute_query, QueryExecutor.execute_query)  *)
(***************************************************************************)
\* (mutant) the check with the session comparison lost
Unauthorized_ExistenceOnly(dataset_id, session_id) ==
    dataset_id \notin DOMAIN DATASETS

\* tee_server.py:396: the dataset is unknown or bound to another session
Unauthorized(dataset_id, session_id) ==
    \/ dataset_id \notin DOMAIN DATASETS
    \/ DATASETS[dataset_id].session_id # session_id

\* the container file of session_id exists (query_executor.py:215-217)
ContainerExists(session_id) == session_id \in Sessions /\ db[session_id].exists

\* tee_server.py:425-430, the JSON body of a successful /execute (the
\* execution time is left out)
ExecuteResponse(query_id, rows) ==
    [status |-> "success", query_id |-> query_id, row_count |-> Len(rows)]

\* what /execute logs at its end: the executor's line and the handler's
\* (query_executor.py:259, 267; tee_server.py:417, 433, 438)
ExecuteLogs(r, code, e, rows) ==
    IF code = 200
    THEN <<Log(QE, 259, <<r.session_id, Len(rows)>>, <<>>, ""),
           Log(TS, 417, <<r.query_id, Len(rows)>>, <<>>, "")>>
    ELSE IF code = 500 THEN <<Log(TS, 438, <<>>, <<>>, e)>>
    ELSE (IF r.pc = "exec_running" THEN <<Log(QE, 267, <<r.session_id>>, <<>>, e)>>
          ELSE <<>>)
         \o <<Log(TS, 433, <<>>, <<>>, e)>>

\* the notifier's own log line (tee_server.py:468, 476)
NotifyLog(entity_id, delivered) ==
    Log(TS, IF delivered THEN 468 ELSE 476, <<entity_id>>, <<>>, "")

\* tee_server.py:423 and 432-440: /execute reports `status` for its query id
\* and returns `code`; r is the request as it stands.  Were the notifier to
\* raise, the exception would leave the handler (from an except clause, or
\* through the except clause that calls the notifier again).
EndExecute(t, r, code, e, rows, status, delivered) ==
    LET call == notify_control_plane(r.query_id, status, TRUE, delivered)
    IN  th' = [th EXCEPT ![t] =
                  [r EXCEPT !.pc = "done",
                            !.resp = IF call.raised THEN 500 ELSE code,
                            !.err = IF call.raised THEN UnhandledError ELSE e,
                            !.rows = IF call.raised THEN <<>> ELSE rows,
                            !.body = IF call.raised THEN ErrorBody(UnhandledError)
                                     ELSE IF code = 200
                                     THEN ExecuteResponse(r.query_id, rows)
                                     ELSE ErrorBody(e),
                            !.notified = @ \o <<call.report>>,
                            !.logged = @ \o ExecuteLogs(r, code, e, rows)
                                         \o <<NotifyLog(r.query_id, delivered)>>]]

\* the JSON body of an /execute: complete, or lacking a field the handler
\* reads with data[...] (tee_server.py:386-388)
ExecuteBodies == {"complete", "no_query_id", "no_query_text"}

\* tee_server.py:384-391: the request fields (query_text is drawn where the
\* handler first depends on it, in ExecuteValidate).  A missing field is a
\* KeyError, caught at line 437: the handler reports 'failed' for query_id
\* and answers 500; when query_id itself is the missing field the name is
\* unbound at line 439 and the UnboundLocalError leaves the handler.
ExecuteBegin(t) ==
    /\ th[t].pc = "idle"
    /\ requests < MaxRequests
    /\ requests' = requests + 1
    /\ \E body \in ExecuteBodies :
         CASE body = "complete" ->
                \E q \in QueryIds, s \in Sessions \cup {None}, ids \in DatasetIdLists :
                  th' = [th EXCEPT ![t] =
                            [IdleThread EXCEPT !.kind = "execute", !.pc = "auth",
                                 !.query_id = q, !.session_id = s, !.dataset_ids = ids,
                                 !.logged = <<Log(TS, 391, <<q, s>>, <<>>, "")>>]]
           [] body = "no_query_id" ->
                th' = [th EXCEPT ![t] =
                          [IdleThread EXCEPT !.kind = "execute", !.pc = "done",
                               !.resp = 500, !.err = UnhandledError,
                               !.body = ErrorBody(UnhandledError),
                               !.logged = <<Log(TS, 438, <<>>, <<>>, "key_error")>>]]
           [] body = "no_query_text" ->
                \E q \in QueryIds, delivered \in BOOLEAN :
                  EndExecute(t, [IdleThread EXCEPT !.kind = "execute", !.query_id = q],
                             500, "key_error", <<>>, "failed", delivered)
    /\ UNCHANGED <<SESSION_KEYS, DATASETS, db, nextKey, tee, issued, san, api_keys, plane>>

\* tee_server.py:393-397: one turn of the loop over dataset_ids; the 403 is a
\* plain return, it reports nothing to the control plane
ExecuteAuth(t) ==
    /\ th[t].pc = "auth"
    /\ IF th[t].authIdx = Len(th[t].dataset_ids)
       THEN th' = [th EXCEPT ![t].pc = "exec_validate"]
       ELSE IF Unauthorized(th[t].dataset_ids[th[t].authIdx + 1], th[t].session_id)
       THEN Respond(t, 403, "dataset_not_found_or_unauthorized", <<>>)
       ELSE th' = [th EXCEPT ![t].authIdx = @ + 1]
    /\ UNCHANGED <<SESSION_KEYS, DATASETS, db, nextKey, requests, tee, issued, san, api_keys, plane>>

\* (mutant) the checks without the one on the container file
QueryRejection_NoExistenceCheck(container_exists, query_text) ==
    IF ~IsSelectQuery(query_text) THEN "only_select_allowed"
    ELSE IF HasDangerousKeyword(query_text) THEN "forbidden_keyword"
    ELSE ""

\* query_executor.py:215-229, the error kind of a rejected query ("" when
\* the query may run)
QueryRejection(container_exists, query_text) ==
    IF ~container_exists THEN "no_database_for_session"
    ELSE IF ~IsSelectQuery(query_text) THEN "only_select_allowed"
    ELSE IF HasDangerousKeyword(query_text) THEN "forbidden_keyword"
    ELSE ""

\* (mutant) execute_query without its checks on the statement and without
\* the read-only pragma
execute_query_Unguarded(container_exists, container, query_text) ==
    [rejected |-> IF container_exists THEN "" ELSE "no_database_for_session",
     submitted |-> <<query_text>>,
     result |-> EngineRun(container, query_text, FALSE)]

\* QueryExecutor.execute_query as a whole: `rejected` is the ValueError of
\* the checks ("" when the statement is submitted), `submitted` what the
\* connection is then given, `result` what the engine makes of query_text
\* under PRAGMA query_only = ON
execute_query(container_exists, container, query_text) ==
    [rejected |-> QueryRejection(container_exists, query_text),
     submitted |-> <<StmtQueryOnly, query_text>>,
     result |-> EngineRun(container, query_text, TRUE)]

\* the container of a session, as execute_query finds it
ContainerOf(session_id) ==
    IF session_id \in Sessions THEN db[session_id] ELSE AbsentContainer

\* query_executor.py:215-241: the checks; then connect, PRAGMA query_only = ON
\* and cursor.execute(query_text).  A rejection is a ValueError, which
\* tee_server.py:432-435 reports as failed and answers with 400.
ExecuteValidate(t) ==
    /\ th[t].pc = "exec_validate"
    /\ \E text \in QueryTexts :
         LET call == execute_query(ContainerExists(th[t].session_id),
                                   ContainerOf(th[t].session_id), text)
         IN  IF call.rejected # ""
             THEN \E delivered \in BOOLEAN :
                    EndExecute(t, [th[t] EXCEPT !.query_text = text], 400,
                               call.rejected, <<>>, "failed", delivered)
             ELSE th' = [th EXCEPT ![t].pc = "exec_running", ![t].query_text = text,
                            ![t].engine = call.submitted]
    /\ UNCHANGED <<SESSION_KEYS, DATASETS, db, nextKey, requests, tee, issued, san, api_keys, plane>>

\* time passes while the engine runs the statement; nothing in the code
\* watches it (connect's timeout is SQLite's busy timeout)
Tick(t) ==
    /\ th[t].pc = "exec_running"
    /\ th[t].elapsed < MaxTicks * QueryTimeout
    /\ th' = [th EXCEPT ![t].elapsed = @ + QueryTimeout]
    /\ UNCHANGED <<SESSION_KEYS, DATASETS, db, nextKey, requests, tee, issued, san, api_keys, plane>>

\* query_executor.py:241-268 and tee_server.py:406-435: the statement ends;
\* rows are fetched and reported, or sqlite3.Error becomes a ValueError
ExecuteComplete(t) ==
    LET s == th[t].session_id
        r == execute_query(TRUE, ContainerOf(s), th[t].query_text).result
    IN  /\ th[t].pc = "exec_running"
        /\ db' = IF s \in Sessions THEN [db EXCEPT ![s] = r.container] ELSE db
        /\ \E delivered \in BOOLEAN :
             IF r.ok
             THEN EndExecute(t, th[t], 200, "", r.rows, "completed", delivered)
             ELSE EndExecute(t, th[t], 400, r.error, <<>>, "failed", delivered)
        /\ UNCHANGED <<SESSION_KEYS, DATASETS, nextKey, requests, tee, issued, san, api_keys, plane>>

\* the response is sent; the worker thread is free for another request
Finish(t) ==
    /\ th[t].pc = "done"
    /\ th' = [th EXCEPT ![t] = IdleThread]
    /\ UNCHANGED <<SESSION_KEYS, DATASETS, db, nextKey, requests, tee, issued, san, api_keys, plane>>

Next ==
    \E t \in Threads :
        \/ UploadBegin(t)
        \/ GetKeyCheck(t)
        \/ GetKeyCreate(t)
        \/ GetKeyReturn(t)
        \/ LoadExistsCheck(t)
        \/ CreateExistsCheck(t)
        \/ CreateConnect(t)
        \/ CreateMetaTable(t)
        \/ CreateInsertCommit(t)
        \/ LoadParse(t)
        \/ LoadCheckTable(t)
        \/ LoadCreateTable(t)
        \/ LoadInsert(t)
        \/ LoadCommit(t)
        \/ BusyTimeout(t)
        \/ UploadStore(t)
        \/ ExecuteBegin(t)
        \/ ExecuteAuth(t)
        \/ ExecuteValidate(t)
        \/ Tick(t)
        \/ ExecuteComplete(t)
        \/ Finish(t)

Spec == Init /\ [][Next]_vars

(***************************************************************************)
(* Session teardown  (QueryExecutor.delete_session_database)               *)
(***************************************************************************)
\* a connection of some request is open on the session's container
ContainerInUse(s) ==
    \E t \in Threads :
        /\ th[t].session_id = s
        /\ th[t].pc \in {"create_table", "create_insert", "load_parse",
                         "load_check_table", "load_create_table", "load_insert",
                         "load_commit", "running"}

\* query_executor.py:318-335: the container file is unlinked when it exists;
\* nothing else is touched (tee_server.py's SESSION_KEYS and DATASETS are not
\* in reach of the executor).  The model tears down a container that no
\* request has open.
delete_session_database(s) ==
    /\ db[s].exists
    /\ ~ContainerInUse(s)
    /\ db' = [db EXCEPT ![s] = AbsentContainer]
    /\ UNCHANGED <<th, SESSION_KEYS, DATASETS, nextKey, requests, tee, issued, san,
                   api_keys, plane>>

\* the worker serving uploads while sessions are torn down
NextTeardown ==
    \/ \E t \in Threads :
        \/ UploadBegin(t)
        \/ GetKeyCheck(t)
        \/ GetKeyCreate(t)
        \/ GetKeyReturn(t)
        \/ LoadExistsCheck(t)
        \/ CreateExistsCheck(t)
        \/ CreateConnect(t)
        \/ CreateMetaTable(t)
        \/ CreateInsertCommit(t)
        \/ LoadParse(t)
        \/ LoadCheckTable(t)
        \/ LoadCreateTable(t)
        \/ LoadInsert(t)
        \/ LoadCommit(t)
        \/ BusyTimeout(t)
        \/ UploadStore(t)
        \/ Finish(t)
    \/ \E s \in Sessions : delete_session_database(s)

SpecTeardown == Init /\ [][NextTeardown]_vars

(***************************************************************************)
(* Startup and GET /attestation  (tee_server.py:175-236, 480-515)          *)
(***************************************************************************)
workerVars == <<th, SESSION_KEYS, DATASETS, db, nextKey, requests>>

\* __main__: load_tee_keypair(), calculate_code_measurement(), then app.run
Startup ==
    /\ ~tee.started
    /\ tee' = Started(tee)
    /\ UNCHANGED <<workerVars, issued, san, api_keys, plane>>

\* time passes on the instance
ClockTick ==
    /\ tee.clock < MaxClockTicks * ClockStepHours
    /\ tee' = [tee EXCEPT !.clock = @ + ClockStepHours]
    /\ UNCHANGED <<workerVars, issued, san, api_keys, plane>>

\* tee_server.py:185-236: three metadata fetches, the document, its
\* signature; any exception is answered 500
Attestation ==
    /\ tee.started
    /\ Len(issued) < MaxIssued
    /\ \E o1, o2, o3 \in FetchOutcomes :
         LET instance_id == get_instance_metadata(MetadataKeys[1], o1)
             instance_name == get_instance_metadata(MetadataKeys[2], o2)
             zone == get_instance_metadata(MetadataKeys[3], o3)
             data == AttestationData(tee, instance_id.value, instance_name.value,
                                     zone.value, tee.clock)
             fetched == <<o1 = "ok", o2 = "ok", o3 = "ok">>
         IN  IF instance_id.raised \/ instance_name.raised \/ zone.raised
             THEN issued' = Append(issued,
                      [code |-> 500, attestation |-> data, signature |-> NoSignature,
                       fetched |-> fetched])
             ELSE issued' = Append(issued,
                      [code |-> 200, attestation |-> data,
                       signature |-> Sign(tee.TEE_PRIVATE_KEY, attestation_json(data)),
                       fetched |-> fetched])
    /\ UNCHANGED <<workerVars, tee, san, api_keys, plane>>

InitAttest ==
    /\ InitWorker
    /\ \E key_files, hash_file, image_info \in BOOLEAN :
          tee = Unstarted(key_files, hash_file, image_info)
    /\ issued = <<>>
    /\ san = NoSanitize
    /\ api_keys = NoKeys /\ plane = NoPlane

NextAttest == Startup \/ ClockTick \/ Attestation

SpecAttest == InitAttest /\ [][NextAttest]_vars

(***************************************************************************)
(* QueryExecutor._sanitize_table_name on its own: a name is passed to it,  *)
(* then its result is passed to it again.                                  *)
(***************************************************************************)
\* the characters of the names: lower and upper case letters, a digit, the
\* underscore, punctuation, white space and a letter outside ASCII
NameAlphabet == {"a", "Z", "1", "_", "-", " ", "é"}
NameInputs == UNION {[1..n -> NameAlphabet] : n \in 0..MaxNameLen}

InitSanitize ==
    /\ InitWorker
    /\ tee = Started(Unstarted(TRUE, TRUE, TRUE))
    /\ issued = <<>>
    /\ \E name \in NameInputs : san = [NoSanitize EXCEPT !.name = name]
    /\ api_keys = NoKeys /\ plane = NoPlane

\* self._sanitize_table_name(name)
SanitizeName ==
    /\ san.calls = 0
    /\ san' = [san EXCEPT !.calls = 1, !.out = _sanitize_table_name(san.name)]
    /\ UNCHANGED <<workerVars, tee, issued, api_keys, plane>>

\* self._sanitize_table_name of the result of the first call
SanitizeAgain ==
    /\ san.calls = 1
    /\ san' = [san EXCEPT !.calls = 2, !.again = _sanitize_table_name(san.out)]
    /\ UNCHANGED <<workerVars, tee, issued, api_keys, plane>>

NextSanitize == SanitizeName \/ SanitizeAgain

SpecSanitize == InitSanitize /\ [][NextSanitize]_vars

(***************************************************************************)
(* web_api: API keys (app/models/api_key.py, app/decorators.py,            *)
(* app/routes/api_keys.py).  The rows of the api_keys table are numbered   *)
(* by their id; Flask serves the requests in threads, each request in its  *)
(* own database session.                                                   *)
(***************************************************************************)
Users == 1..NumUsers
WebThreads == 1..NumWebThreads

\* APIKey.generate_key: the token of the row with this id (tokens are unique)
KeyString(id) == <<"k">> \o IntStr(id)
\* a token no row holds
UnknownKey == <<"z">>

\* APIKey(user_id=..., key=..., name=...): is_active defaults to True,
\* last_used to NULL
APIKey(user_id, name) ==
    [user_id |-> user_id, name |-> name, is_active |-> TRUE, used |-> FALSE]

\* (mutant) the lookup without the is_active filter
get_by_key_AnyStatus(table, key) ==
    LET found == {id \in 1..Len(table) : KeyString(id) = key}
    IN  IF found = {} THEN 0 ELSE CHOOSE id \in found : TRUE
\* APIKey.get_by_key: filter_by(key=key, is_active=True).first(); 0 for None
get_by_key(table, key) ==
    LET found == {id \in 1..Len(table) : KeyString(id) = key /\ table[id].is_active}
    IN  IF found = {} THEN 0 ELSE CHOOSE id \in found : TRUE

\* APIKey.get_user_by_api_key, with mark_used: the user (0 for None) and the
\* table as the call leaves it
get_user_by_api_key(table, key) ==
    LET id == get_by_key(table, key)
    IN  IF id # 0
        THEN [user |-> table[id].user_id, table |-> [table EXCEPT ![id].used = TRUE]]
        ELSE [user |-> 0, table |-> table]

\* str.replace(old, ''): every occurrence of old removed
RECURSIVE Replace(_, _)
Replace(s, old) ==
    IF Len(s) < Len(old) THEN s
    ELSE IF StartsWith(s, old) THEN Replace(SubSeq(s, Len(old) + 1, Len(s)), old)
    ELSE <<Head(s)>> \o Replace(Tail(s), old)

\* (mutant) the X-API-Key header looked at first
ExtractApiKey_HeaderFirst(auth_header, x_api_key, query_param) ==
    LET bearer == IF auth_header # <<>> /\ StartsWith(auth_header, BearerPrefix)
                  THEN Replace(auth_header, BearerPrefix) ELSE <<>>
        header == IF x_api_key = <<>> THEN bearer ELSE x_api_key
    IN  IF header = <<>> THEN query_param ELSE header
\* decorators.py:55-68: the key of the request; <<>> is an absent (or empty)
\* header or parameter
ExtractApiKey(auth_header, x_api_key, query_param) ==
    LET bearer == IF auth_header # <<>> /\ StartsWith(auth_header, BearerPrefix)
                  THEN Replace(auth_header, BearerPrefix) ELSE <<>>
        header == IF bearer = <<>> THEN x_api_key ELSE bearer
    IN  IF header = <<>> THEN query_param ELSE header

\* decorators.py:70-87: the response of the decorator (200 stands for the
\* wrapped view being called as `user`)
api_key_required(table, auth_header, x_api_key, query_param) ==
    LET api_key == ExtractApiKey(auth_header, x_api_key, query_param)
        found == get_user_by_api_key(table, api_key)
    IN  IF api_key = <<>>
        THEN [status |-> 401, error |-> "API key required", user |-> 0, table |-> table]
        ELSE IF found.user = 0
        THEN [status |-> 401, error |-> "Invalid API key", user |-> 0, table |-> table]
        ELSE [status |-> 200, error |-> "", user |-> found.user, table |-> found.table]

\* (mutant) no ownership check
NotOwner_Never(row, user) == FALSE
\* api_keys.py:61 and 79: api_key.user_id != current_user.id
NotOwner(row, user) == row.user_id # user

\* api_keys.py:33: current_user.api_keys.filter_by(is_active=True).count()
ActiveCount(table, user) ==
    Cardinality({id \in 1..Len(table) :
                    table[id].user_id = user /\ table[id].is_active})

\* the keys requests present, the Authorization headers they carry and the
\* names of the forms
PresentedKeys == {KeyString(1), KeyString(KeyLimit), UnknownKey}
AuthorizationInputs ==
    {<<>>, BearerPrefix, BearerPrefix \o BearerPrefix,
     <<"b","e","a","r","e","r"," ">> \o KeyString(1)}
    \cup {BearerPrefix \o k : k \in PresentedKeys}
KeyInputs == {<<>>, KeyString(1), UnknownKey}
KeyNameInputs == {<<>>, <<" ">>, <<"a">>, <<" ","b">>}

\* what the last request served was and how it ended
Outcome(op, user, key_id, status, error) ==
    [op |-> op, user |-> user, key_id |-> key_id, status |-> status, error |-> error,
     auth_header |-> <<>>, x_api_key |-> <<>>, query_param |-> <<>>]

\* the application with user 1 holding `held` active keys
InitKeys ==
    /\ InitWorker
    /\ tee = Started(Unstarted(TRUE, TRUE, TRUE))
    /\ issued = <<>> /\ san = NoSanitize /\ plane = NoPlane
    /\ \E held \in {0, KeyLimit - 1} :
          api_keys = [table |-> [id \in 1..held |-> APIKey(1, <<"a">>)],
                      web |-> [t \in WebThreads |-> [pc |-> "idle", user |-> 0,
                                                      name |-> <<>>]],
                      ops |-> 0,
                      last |-> Outcome("", 0, 0, 0, "")]

\* api_keys.py:24-36, create_key up to the count of the active keys
CreateKeyBegin(t) ==
    /\ api_keys.web[t].pc = "idle"
    /\ api_keys.ops < MaxKeyOps
    /\ \E user \in Users, name \in KeyNameInputs :
         api_keys' =
           IF Strip(name) = <<>>
           THEN [api_keys EXCEPT !.ops = @ + 1,
                    !.last = Outcome("create", user, 0, 302, "name_required")]
           ELSE IF ActiveCount(api_keys.table, user) >= KeyLimit
           THEN [api_keys EXCEPT !.ops = @ + 1,
                    !.last = Outcome("create", user, 0, 302, "maximum_reached")]
           ELSE [api_keys EXCEPT !.ops = @ + 1,
                    !.web[t] = [pc |-> "counted", user |-> user, name |-> Strip(name)]]
    /\ UNCHANGED <<workerVars, tee, issued, san, plane>>

\* api_keys.py:38-51: the row is added and committed
CreateKeyCommit(t) ==
    /\ api_keys.web[t].pc = "counted"
    /\ api_keys' =
         [api_keys EXCEPT
            !.table = Append(@, APIKey(api_keys.web[t].user, api_keys.web[t].name)),
            !.web[t] = [pc |-> "idle", user |-> 0, name |-> <<>>],
            !.last = Outcome("create", api_keys.web[t].user, Len(api_keys.table) + 1,
                             302, "")]
    /\ UNCHANGED <<workerVars, tee, issued, san, plane>>

\* api_keys.py:54-69, delete_key; deactivate writes is_active alone
DeleteKey ==
    /\ api_keys.ops < MaxKeyOps
    /\ \E user \in Users, key_id \in 1..(Len(api_keys.table) + 1) :
         api_keys' =
           IF key_id > Len(api_keys.table)
           THEN [api_keys EXCEPT !.ops = @ + 1,
                    !.last = Outcome("delete", user, key_id, 404, "not_found")]
           ELSE IF NotOwner(api_keys.table[key_id], user)
           THEN [api_keys EXCEPT !.ops = @ + 1,
                    !.last = Outcome("delete", user, key_id, 302, "no_permission")]
           ELSE [api_keys EXCEPT !.ops = @ + 1,
                    !.table[key_id].is_active = FALSE,
                    !.last = Outcome("delete", user, key_id, 302, "")]
    /\ UNCHANGED <<workerVars, tee, issued, san, plane>>

\* api_keys.py:72-92, rename_key; the commit writes the name alone
RenameKey ==
    /\ api_keys.ops < MaxKeyOps
    /\ \E user \in Users, key_id \in 1..(Len(api_keys.table) + 1),
          name \in KeyNameInputs :
         api_keys' =
           IF key_id > Len(api_keys.table)
           THEN [api_keys EXCEPT !.ops = @ + 1,
                    !.last = Outcome("rename", user, key_id, 404, "not_found")]
           ELSE IF NotOwner(api_keys.table[key_id], user)
           THEN [api_keys EXCEPT !.ops = @ + 1,
                    !.last = Outcome("rename", user, key_id, 302, "no_permission")]
           ELSE IF Strip(name) = <<>>
           THEN [api_keys EXCEPT !.ops = @ + 1,
                    !.last = Outcome("rename", user, key_id, 302, "name_required")]
           ELSE [api_keys EXCEPT !.ops = @ + 1,
                    !.table[key_id].name = Strip(name),
                    !.last = Outcome("rename", user, key_id, 302, "")]
    /\ UNCHANGED <<workerVars, tee, issued, san, plane>>

\* a request to a route behind @api_key_required
ApiRequest ==
    /\ api_keys.ops < MaxKeyOps
    /\ \E auth_header \in AuthorizationInputs, x_api_key \in KeyInputs,
          query_param \in KeyInputs :
         LET r == api_key_required(api_keys.table, auth_header, x_api_key, query_param)
         IN  api_keys' =
               [api_keys EXCEPT !.ops = @ + 1, !.table = r.table,
                  !.last = [Outcome("api", r.user, 0, r.status, r.error) EXCEPT
                               !.auth_header = auth_header,
                               !.x_api_key = x_api_key,
                               !.query_param = query_param]]
    /\ UNCHANGED <<workerVars, tee, issued, san, plane>>

NextKeys ==
    \/ \E t \in WebThreads : CreateKeyBegin(t) \/ CreateKeyCommit(t)
    \/ DeleteKey
    \/ RenameKey
    \/ ApiRequest

SpecKeys == InitKeys /\ [][NextKeys]_vars

(***************************************************************************)
(* Control plane: sessions, query approval and dispatch                    *)
(* (web_api/app/routes/tee.py, routes/tee_callbacks.py, models/tee.py)     *)
(***************************************************************************)
\* the creator of the session under observation
Creator == 1

\* QueryStatus and SessionStatus (models/tee.py:10-35); NoQuery: no row yet
NoQuery == ""
AwaitingApproval == {"submitted", "verifying"}

\* an idle request thread of the web application
IdleHandler ==
    [pc |-> "idle", user |-> 0, status |-> NoQuery, approval_count |-> 0,
     participant_count |-> 0, status_code |-> 0, resp |-> 0]

\* models/tee.py:120-122
is_participant(session, user) ==
    user \in session.participants \/ user = session.creator_id

\* routes/tee.py:635: the gate of the dispatch
Unanimous(session, approval_count, participant_count) ==
    session.require_unanimous_approval /\ approval_count >= participant_count

\* routes/tee.py:620-623: the rows of query_approvals with approved = True
ApprovalCount(approvals) == Len(approvals)

\* the users with a row in query_approvals
Approvers(approvals) == {approvals[i] : i \in DOMAIN approvals}

\* what the TEE answers to POST /execute and what it reports before it
\* answers (tee_server.py:399-440); report "": the report did not arrive
\* (notify_control_plane swallows the failure); status 0: no answer
\* (connection error or the 60 s timeout of routes/tee.py:657)
TeeOutcomes ==
    {[status_code |-> 200, report |-> "completed"],
     [status_code |-> 200, report |-> ""],
     [status_code |-> 400, report |-> "failed"],
     [status_code |-> 500, report |-> "failed"],
     [status_code |-> 0, report |-> "completed"],
     [status_code |-> 0, report |-> ""]}

\* routes/tee.py:72-96: the session as create_session commits it: ACTIVE,
\* the creator among the participants, no query yet
InitControl ==
    /\ InitWorker
    /\ tee = Started(Unstarted(TRUE, TRUE, TRUE))
    /\ issued = <<>>
    /\ san = NoSanitize
    /\ api_keys = NoKeys
    /\ \E invited \in SUBSET (Users \ {Creator}), unanimous \in BOOLEAN :
         plane = [session |-> [status |-> "active", creator_id |-> Creator,
                               participants |-> {Creator} \cup invited,
                               require_unanimous_approval |-> unanimous],
                  query |-> NoQuery,
                  approvals |-> <<>>,
                  web |-> [t \in WebThreads |-> IdleHandler],
                  callbacks |-> {},
                  dispatched |-> <<>>]

\* routes/tee.py:470-541
submit_query(user) ==
    /\ plane.query = NoQuery
    /\ is_participant(plane.session, user)
    /\ plane.session.status = "active"
    /\ plane' = [plane EXCEPT !.query = "submitted"]
    /\ UNCHANGED <<workerVars, tee, issued, san, api_keys>>

\* routes/tee.py:216-253 and models/tee.py:114-118
add_participant(current_user, user) ==
    /\ plane.session.creator_id = current_user
    /\ ~is_participant(plane.session, user)
    /\ plane' = [plane EXCEPT !.session.participants = @ \cup {user}]
    /\ UNCHANGED <<workerVars, tee, issued, san, api_keys>>

\* routes/tee.py:256-271
terminate_tee(current_user) ==
    /\ plane.session.creator_id = current_user
    /\ plane' = [plane EXCEPT !.session.status = "suspended"]
    /\ UNCHANGED <<workerVars, tee, issued, san, api_keys>>

\* routes/tee.py:136-151 and models/tee.py:108-112
delete_session(current_user) ==
    /\ plane.session.creator_id = current_user
    /\ plane' = [plane EXCEPT !.session.status = "closed"]
    /\ UNCHANGED <<workerVars, tee, issued, san, api_keys>>

\* routes/tee.py:693-716 and models/tee.py:255-259
reject_query(user) ==
    /\ plane.query # NoQuery
    /\ is_participant(plane.session, user)
    /\ plane.query = "submitted"
    /\ plane' = [plane EXCEPT !.query = "rejected"]
    /\ UNCHANGED <<workerVars, tee, issued, san, api_keys>>

\* routes/tee.py:587-607: the query is loaded, the caller and the status
\* are checked, and the caller's approval row is looked up
ApproveBegin(t) ==
    /\ plane.web[t].pc = "idle"
    /\ UNCHANGED <<workerVars, tee, issued, san, api_keys>>
    /\ \E user \in Users :
         LET answer(code) == [IdleHandler EXCEPT !.user = user, !.resp = code]
         IN  IF plane.query = NoQuery
             THEN plane' = [plane EXCEPT !.web[t] = answer(404)]
             ELSE IF ~is_participant(plane.session, user)
             THEN plane' = [plane EXCEPT !.web[t] = answer(403)]
             ELSE IF plane.query \notin AwaitingApproval
                     \/ user \in Approvers(plane.approvals)
             THEN plane' = [plane EXCEPT !.web[t] = answer(400)]
             ELSE plane' = [plane EXCEPT !.web[t] =
                               [IdleHandler EXCEPT !.pc = "insert", !.user = user,
                                                   !.status = plane.query]]

\* routes/tee.py:610-632: the approval row is inserted (primary key
\* query_id, user_id: models/tee.py:46-53), the approvals and the
\* participants are counted, a SUBMITTED query becomes VERIFYING, commit.
\* query.status is the value loaded at 587; the UPDATE is sent only when the
\* handler assigned it
ApproveInsert(t) ==
    LET h == plane.web[t]
    IN  /\ h.pc = "insert"
        /\ UNCHANGED <<workerVars, tee, issued, san, api_keys>>
        /\ IF h.user \in Approvers(plane.approvals)
           THEN plane' = [plane EXCEPT !.web[t] = [IdleHandler EXCEPT !.user = h.user,
                                                                    !.resp = 500]]
           ELSE plane' = [plane EXCEPT
                    !.approvals = Append(@, h.user),
                    !.query = IF h.status = "submitted" THEN "verifying" ELSE @,
                    !.web[t] = [h EXCEPT !.pc = "decide",
                        !.approval_count = ApprovalCount(Append(plane.approvals, h.user)),
                        !.participant_count = Cardinality(plane.session.participants)]]

\* routes/tee.py:635-636 and 679-688, models/tee.py:249-253: the gate, and
\* query.approve() when it opens
ApproveDecide(t) ==
    LET h == plane.web[t]
    IN  /\ h.pc = "decide"
        /\ UNCHANGED <<workerVars, tee, issued, san, api_keys>>
        /\ IF Unanimous(plane.session, h.approval_count, h.participant_count)
           THEN plane' = [plane EXCEPT !.query = "approved", !.web[t].pc = "post"]
           ELSE plane' = [plane EXCEPT !.web[t] = [IdleHandler EXCEPT !.user = h.user,
                                                                    !.resp = 200]]

\* routes/tee.py:649-658: requests.post(f'{tee_endpoint}/execute', ...); the
\* model notes who the participants and the approvers are as the request
\* leaves, and the session's status
ApproveDispatch(t) ==
    /\ plane.web[t].pc = "post"
    /\ plane' = [plane EXCEPT
                    !.web[t].pc = "tee",
                    !.dispatched = Append(@,
                        [participants |-> plane.session.participants,
                         approvers |-> Approvers(plane.approvals),
                         session_status |-> plane.session.status])]
    /\ UNCHANGED <<workerVars, tee, issued, san, api_keys>>

\* tee_server.py:399-440: the TEE runs the query, calls
\* notify_control_plane (423, 434, 439) and then returns its response
TeeExecute(t) ==
    /\ plane.web[t].pc = "tee"
    /\ \E o \in TeeOutcomes :
         plane' = [plane EXCEPT
                      !.web[t].pc = "response",
                      !.web[t].status_code = o.status_code,
                      !.callbacks = IF o.report = "" THEN @ ELSE @ \cup {o.report}]
    /\ UNCHANGED <<workerVars, tee, issued, san, api_keys>>

\* routes/tee_callbacks.py:102-118: POST /api/tee/callback for the query
tee_callback(status) ==
    /\ status \in plane.callbacks
    /\ plane.query # NoQuery
    /\ plane' = [plane EXCEPT
                    !.callbacks = @ \ {status},
                    !.query = IF status = "completed" THEN "completed"
                              ELSE IF status = "failed" THEN "error" ELSE @]
    /\ UNCHANGED <<workerVars, tee, issued, san, api_keys>>

\* routes/tee.py:660-685, models/tee.py:261-265: the response of /execute
\* has arrived (or the request has failed)
ApproveResponse(t) ==
    LET h == plane.web[t]
    IN  /\ h.pc = "response"
        /\ UNCHANGED <<workerVars, tee, issued, san, api_keys>>
        /\ IF h.status_code = 200
           THEN plane' = [plane EXCEPT !.query = "executing",
                             !.web[t] = [IdleHandler EXCEPT !.user = h.user, !.resp = 200]]
           ELSE plane' = [plane EXCEPT !.query = "error",
                             !.web[t] = [IdleHandler EXCEPT !.user = h.user, !.resp = 500]]

NextControl ==
    \/ \E user \in Users : submit_query(user)
    \/ \E current_user, user \in Users : add_participant(current_user, user)
    \/ \E current_user \in Users : terminate_tee(current_user)
    \/ \E current_user \in Users : delete_session(current_user)
    \/ \E user \in Users : reject_query(user)
    \/ \E t \in WebThreads :
        \/ ApproveBegin(t)
        \/ ApproveInsert(t)
        \/ ApproveDecide(t)
        \/ ApproveDispatch(t)
        \/ TeeExecute(t)
        \/ ApproveResponse(t)
    \/ \E status \in {"completed", "failed"} : tee_callback(status)

SpecControl == InitControl /\ [][NextControl]_vars

(***************************************************************************)
(* Properties.                                                             *)
(***************************************************************************)
ExecuteThreads == {t \in Threads : th[t].kind = "execute"}
UploadThreads == {t \in Threads : th[t].kind = "upload"}

\* the dataset an /execute thread's authorization loop examines next
NextChecked(t) == th[t].dataset_ids[th[t].authIdx + 1]

\* C1: Session isolation.  When the authorization loop of an /execute under
\* session B comes to a named dataset whose Dataset Record is bound to
\* another session, the request ends there with 403 and nothing has been
\* or is ever submitted to the engine; a request that did submit its query
\* has had every dataset it names checked and was not answered 403.
C1_SessionIsolation ==
    /\ [][\A t \in Threads :
            ( /\ th[t].kind = "execute" /\ th[t].pc = "auth"
              /\ th[t].authIdx < Len(th[t].dataset_ids)
              /\ NextChecked(t) \in DOMAIN DATASETS
              /\ DATASETS[NextChecked(t)].session_id # th[t].session_id
              /\ th'[t] # th[t] )
            => ( th'[t].pc = "done" /\ th'[t].resp = 403 /\ th'[t].engine = <<>> )]_vars
    /\ [](\A t \in ExecuteThreads :
            th[t].engine # <<>> =>
                th[t].authIdx = Len(th[t].dataset_ids) /\ th[t].resp # 403)

\* C1 witness: an /execute under session B was refused with 403 at a dataset
\* whose record is bound to session A # B.
C1_Witness ==
    \E t \in ExecuteThreads :
        /\ th[t].pc = "done" /\ th[t].resp = 403
        /\ th[t].session_id \in Sessions
        /\ th[t].authIdx < Len(th[t].dataset_ids)
        /\ NextChecked(t) \in DOMAIN DATASETS
        /\ DATASETS[NextChecked(t)].session_id \in Sessions \ {th[t].session_id}

\* C2: exactly one Session Key per session: the key stored for a session
\* never changes once created, and every key handed to an upload of the
\* session (and kept in its Dataset Record) is the stored one.
C2_OneKeyPerSession ==
    /\ [][\A s \in DOMAIN SESSION_KEYS :
            s \in DOMAIN SESSION_KEYS' /\ SESSION_KEYS'[s] = SESSION_KEYS[s]]_vars
    /\ [](\A t \in UploadThreads :
            (th[t].session_id # None /\ th[t].storage_key # None)
                => th[t].storage_key = SESSION_KEYS[th[t].session_id])

\* C3: a Dataset Record is immutable once stored, and an upload whose
\* dataset identifier already has a record is not answered as a success.
C3_RecordImmutable ==
    [][ /\ \A d \in DOMAIN DATASETS :
             d \in DOMAIN DATASETS' /\ DATASETS'[d] = DATASETS[d]
        /\ \A t \in Threads :
             ( /\ th[t].kind = "upload" /\ th[t].pc # "done" /\ th'[t].pc = "done"
               /\ th[t].dataset_id \in DOMAIN DATASETS )
             => th'[t].resp # 200 ]_vars

\* a thread is loading table tn into the container of session s
Loading(s, tn) ==
    \E t \in UploadThreads :
        /\ th[t].session_id = s /\ th[t].table_name = tn
        /\ th[t].pc \in {"load_insert", "load_commit"}

\* C4: no partial visible state.  Every dataset table of a container that
\* no upload is still loading holds its rows and has its metadata entry,
\* and belongs to an upload that succeeded or is about to store its record.
C4_NoPartialState ==
    \A s \in Sessions : \A tn \in DOMAIN db[s].tables :
        Loading(s, tn) \/
            ( /\ db[s].tables[tn].rows # <<>>
              /\ \E k \in DOMAIN db[s].meta : db[s].meta[k] = tn )

\* the statements of the model that do not begin with SELECT, and those
\* that hold a denylisted keyword
NotSelectTexts == {QDrop, QAttach}
DenylistedTexts == {QAttach, QSelectPragma}
SelectOneTexts == {QSelect1, QSelectLower}

\* C5: Query safety.  A statement that does not begin with SELECT or that
\* holds a denylisted keyword is answered 400 with nothing submitted to the
\* engine; SELECT 1 (in any case, with surrounding blanks) on an existing
\* container is submitted and succeeds with the single row 1.
C5_QuerySafety ==
    \A t \in ExecuteThreads :
        /\ th[t].query_text \in NotSelectTexts \cup DenylistedTexts =>
              /\ th[t].engine = <<>>
              /\ th[t].pc = "done" /\ th[t].resp = 400
        /\ ( /\ th[t].query_text \in SelectOneTexts /\ th[t].pc = "done"
             /\ th[t].err # "no_database_for_session" ) =>
              /\ th[t].resp = 200 /\ th[t].rows = << <<1>> >>
              /\ th[t].engine # <<>>

\* C5 witness: DROP TABLE was refused on an existing container before the
\* engine saw anything.
C5_Witness ==
    \E t \in ExecuteThreads :
        /\ th[t].pc = "done" /\ th[t].query_text = QDrop
        /\ th[t].resp = 400 /\ th[t].engine = <<>>
        /\ ContainerExists(th[t].session_id)
        /\ db[th[t].session_id].tables # EmptyDict

\* C6: execute is read-only: no step of an /execute request changes a
\* container, the Dataset Record registry or the Session Key registry.
C6_ExecuteReadOnly ==
    [][\A t \in Threads :
          ( /\ th'[t] # th[t]
            /\ (th[t].kind = "execute" \/ th'[t].kind = "execute") )
          => UNCHANGED <<db, DATASETS, SESSION_KEYS>>]_vars

\* C6 witness: a statement naming an existing table of a populated
\* container went through the engine (DROP TABLE inside a SELECT text, or a
\* count over the table) and the request has ended.
C6_Witness ==
    \E t \in ExecuteThreads :
        /\ th[t].pc = "done" /\ th[t].engine # <<>>
        /\ th[t].query_text \in {QMulti, QCount}
        /\ \E tn \in DOMAIN db[th[t].session_id].tables :
              db[th[t].session_id].tables[tn].rows # <<>>

\* C7: the query timeout is a cancellation: no statement is still running
\* after more than the timeout, and a request whose statement ran longer
\* than the timeout is answered as failed with a 'failed' report.
C7_TimeoutCancels ==
    \A t \in ExecuteThreads :
        th[t].elapsed > QueryTimeout =>
            /\ th[t].pc = "done"
            /\ th[t].resp # 200
            /\ \E i \in 1..Len(th[t].notified) : th[t].notified[i].status = "failed"

\* a thread is inside load_dataset's or execute_query's use of the
\* container of session s (between connect and close)
InContainer(t, s) ==
    /\ th[t].session_id = s
    /\ th[t].pc \in {"load_check_table", "load_create_table", "load_insert",
                     "load_commit", "exec_running"}

\* C8: within one session, loads and executions are serialized: at most one
\* is in progress on the session's container.
C8_Serialized ==
    \A s \in Sessions : Cardinality({t \in Threads : InContainer(t, s)}) <= 1

\* C9: lazy container creation is an atomic get-or-insert: a container has
\* its session_id and created_at rows once its metadata table is filled,
\* and no upload fails because another upload is creating the container.
C9_AtomicCreation ==
    /\ \A s \in Sessions :
          db[s].meta # EmptyDict =>
              {MetaSessionId, MetaCreatedAt} \subseteq DOMAIN db[s].meta
    /\ \A t \in UploadThreads :
          th[t].pc = "done" =>
              th[t].err \notin {"metadata_table_exists", "no_metadata_table"}

\* C10: every /upload that carries a bearer credential ends with a report
\* to the Status Notifier for its dataset id: a success report when the
\* ingestion succeeded, a 'failed' report otherwise.
C10_UploadReported ==
    \A t \in UploadThreads :
        (th[t].pc = "done" /\ th[t].bearer) =>
            \E i \in 1..Len(th[t].notified) :
                /\ th[t].notified[i].entity_type = "dataset"
                /\ th[t].notified[i].entity_id = th[t].dataset_id
                /\ (th[t].notified[i].status = "failed") <=> (th[t].resp # 200)

\* C11: a Status Notifier failure never changes the outcome of the request
\* that triggered it: no request is ever answered with an exception of the
\* notifier, a query whose 'completed' report was attempted (delivered or
\* not) is answered 200 with its rows, and an upload answered 200 has its
\* Dataset Record in the registry.
C11_NotifierSwallowed ==
    \A t \in Threads :
        /\ \A i \in 1..Len(th[t].notified) :
              th[t].notified[i].status = "completed" =>
                  th[t].pc = "done" /\ th[t].resp = 200 /\ th[t].rows # <<>>
        /\ (th[t].pc = "done" /\ th[t].notified # <<>>) => th[t].err # UnhandledError
        /\ (th[t].kind = "upload" /\ th[t].pc = "done" /\ th[t].resp = 200) =>
              th[t].dataset_id \in DOMAIN DATASETS

\* C11 witness: a query succeeded although its 'completed' report did not
\* reach the control plane.
C11_Witness ==
    \E t \in ExecuteThreads :
        /\ th[t].pc = "done" /\ th[t].resp = 200
        /\ \E i \in 1..Len(th[t].notified) :
              th[t].notified[i].status = "completed" /\ ~th[t].notified[i].delivered

\* C12: every /execute that fails (a rejected statement, a missing
\* container, a malformed request, an engine error) is answered with an
\* error body of the handler and has produced a 'failed' report for its
\* query id, exactly one, the statement having been submitted at most once.
C12_ExecuteFailureReported ==
    \A t \in ExecuteThreads :
        (th[t].pc = "done" /\ th[t].resp \in {400, 500}) =>
            /\ th[t].err \notin {"", UnhandledError}
            /\ Len(th[t].notified) = 1
            /\ th[t].notified[1] \in
                   {Report("query", th[t].query_id, "failed", delivered) :
                        delivered \in BOOLEAN}

\* C13: authorization precedes cryptography.  An /upload without a bearer
\* credential ends at once with 401: no key unwrap or decryption has been
\* attempted for it, and its step leaves the Session Key registry, the
\* Dataset Record registry and every container unchanged.
C13_AuthBeforeCrypto ==
    /\ [][\A t \in Threads :
            (th[t].pc = "idle" /\ th'[t].kind = "upload" /\ ~th'[t].bearer)
            => UNCHANGED <<SESSION_KEYS, DATASETS, db, nextKey>>]_vars
    /\ [](\A t \in UploadThreads :
            ~th[t].bearer =>
                /\ th[t].pc = "done" /\ th[t].resp = 401
                /\ th[t].crypto = "" /\ th[t].csv = <<>>)

\* C13 witness: an upload without a bearer credential was refused while the
\* registries and a container hold the data of an earlier upload.
C13_Witness ==
    \E t \in UploadThreads :
        /\ th[t].pc = "done" /\ th[t].resp = 401 /\ ~th[t].bearer
        /\ DATASETS # EmptyDict /\ SESSION_KEYS # EmptyDict
        /\ \E s \in Sessions : db[s].tables # EmptyDict

UniqueHeader(csv) ==
    \A i, j \in 1..Len(csv[1]) :
        i # j => _sanitize_table_name(csv[1][i]) # _sanitize_table_name(csv[1][j])

\* C15: every ingestion, session-bound or session-less, whose header fields
\* are not unique after sanitization is rejected and creates no Dataset
\* Record.
C15_DuplicateColumnsRejected ==
    /\ \A t \in UploadThreads :
          (th[t].pc = "done" /\ th[t].csv # <<>> /\ ~UniqueHeader(th[t].csv))
              => th[t].resp # 200
    /\ \A d \in DOMAIN DATASETS : UniqueHeader(DATASETS[d].encrypted_data.data.csv)

\* the keys held by the registries
KeysInUse ==
    {SESSION_KEYS[s] : s \in DOMAIN SESSION_KEYS}
        \cup {DATASETS[d].storage_key : d \in DOMAIN DATASETS}

\* C16: the step that stores a session-less upload answers 200 and stores
\* its Dataset Record with a null session id, no table name and a key that
\* no session and no other record holds, and changes neither the Session
\* Key registry nor any container.
C16_IndependentUpload ==
    [][\A t \in Threads :
          ( /\ th[t].kind = "upload" /\ th[t].pc = "store"
            /\ th[t].session_id = None /\ th'[t] # th[t] )
          => /\ th'[t].pc = "done" /\ th'[t].resp = 200
             /\ th[t].dataset_id \in DOMAIN DATASETS'
             /\ DATASETS'[th[t].dataset_id].session_id = None
             /\ DATASETS'[th[t].dataset_id].table_name = <<>>
             /\ DATASETS'[th[t].dataset_id].storage_key \notin KeysInUse
             /\ UNCHANGED <<SESSION_KEYS, db>>]_vars

\* C16 witness: a session-less record is stored next to the key and the
\* container of a session.
C16_Witness ==
    \E d \in DOMAIN DATASETS :
        /\ DATASETS[d].session_id = None /\ DATASETS[d].table_name = <<>>
        /\ DATASETS[d].storage_key \notin {SESSION_KEYS[s] : s \in DOMAIN SESSION_KEYS}
        /\ SESSION_KEYS # EmptyDict
        /\ \E s \in Sessions : db[s].tables # EmptyDict

\* the Dataset Records of session s whose table the text QCount names
CountedRecords(s) ==
    {d \in DOMAIN DATASETS :
        /\ DATASETS[d].session_id = s
        /\ Upper(DATASETS[d].table_name) = After(Upper(QCount), StmtCountFrom)}

\* C17: a successful session-bound upload of a CSV with N data rows answers
\* and records row_count = N, and an execute of SELECT COUNT(*) over the
\* derived table that completes once the record is stored returns the
\* single row N.
C17_RowCount ==
    /\ [](\A t \in UploadThreads :
            (th[t].pc = "done" /\ th[t].resp = 200 /\ th[t].session_id # None)
                => th[t].row_count = Len(th[t].csv) - 1)
    /\ [][\A t \in Threads :
            ( /\ th[t].kind = "upload" /\ th[t].pc = "store"
              /\ th[t].session_id # None /\ th'[t] # th[t] )
            => DATASETS'[th[t].dataset_id].row_count = Len(th[t].csv) - 1]_vars
    /\ [][\A t \in Threads :
            ( /\ th[t].kind = "execute" /\ th[t].pc = "exec_running"
              /\ th[t].query_text = QCount /\ th'[t].pc = "done" )
            => \A d \in CountedRecords(th[t].session_id) :
                  /\ th'[t].resp = 200
                  /\ th'[t].rows = << <<DATASETS[d].row_count>> >>]_vars

\* C17 witness: the count over the table of a stored five-row upload was
\* returned as 5.
C17_Witness ==
    \E t \in ExecuteThreads :
        /\ th[t].pc = "done" /\ th[t].resp = 200 /\ th[t].query_text = QCount
        /\ th[t].rows = << <<5>> >>
        /\ \E d \in CountedRecords(th[t].session_id) :
              DATASETS[d].row_count = 5 /\ Len(DATASETS[d].encrypted_data.data.csv) = 6

\* dataset ids and declared names for the derived table name
TableNameIds == 1..(NumDatasets + 10)
TableNameNames ==
    DatasetNameInputs \cup {DefaultDatasetName(d) : d \in DatasetIds}
        \cup {<<>>, <<"a">>, <<"1">>, <<"1","_","a">>, <<"_">>, <<"a","_","1">>}

\* the derived table name is injective in the dataset id, for the
\* identifiers and names above
TableNamesInjective ==
    \A d1, d2 \in TableNameIds : \A n1, n2 \in TableNameNames :
        d1 # d2 => TableName(d1, n1) # TableName(d2, n2)

\* C18: two datasets with different identifiers never receive the same
\* derived table name, whatever their declared names: for the identifiers
\* and names above, for any two uploads in progress on one session, and
\* for any two records of one session.
C18_DistinctTableNames ==
    /\ TableNamesInjective
    /\ \A t1, t2 \in UploadThreads :
          ( /\ th[t1].dataset_id # th[t2].dataset_id
            /\ th[t1].session_id = th[t2].session_id
            /\ th[t1].table_name # <<>> /\ th[t2].table_name # <<>> )
          => th[t1].table_name # th[t2].table_name
    /\ \A d1, d2 \in DOMAIN DATASETS :
          ( /\ d1 # d2 /\ DATASETS[d1].session_id = DATASETS[d2].session_id
            /\ DATASETS[d1].session_id # None )
          => DATASETS[d1].table_name # DATASETS[d2].table_name

\* C18 witness: two datasets declared under the same name are loaded in one
\* session, each in a table of its own.
C18_Witness ==
    \E s \in Sessions :
        /\ {TableName(1, <<"A">>), TableName(2, <<"A">>)} \subseteq DOMAIN db[s].tables
        /\ {1, 2} \subseteq DOMAIN DATASETS
        /\ DATASETS[1].session_id = s /\ DATASETS[2].session_id = s
        /\ DATASETS[1].table_name = TableName(1, <<"A">>)
        /\ DATASETS[2].table_name = TableName(2, <<"A">>)

\* C19: a load whose derived table name already exists in the container is
\* rejected by the existence check with its conflict error, and the step
\* leaves every container (the table's rows, the metadata) as it was.
C19_LoadConflict ==
    [][\A t \in Threads :
          ( /\ th[t].kind = "upload" /\ th[t].pc = "load_check_table"
            /\ th[t].table_name \in DOMAIN db[th[t].session_id].tables
            /\ th'[t] # th[t] )
          => /\ th'[t].pc = "done" /\ th'[t].resp = 500
             /\ th'[t].err = "table_already_exists"
             /\ UNCHANGED <<db, DATASETS>>]_vars

\* C19 witness: a second load of a table was rejected and the table still
\* holds its rows and its metadata entry.
C19_Witness ==
    \E t \in UploadThreads :
        /\ th[t].pc = "done" /\ th[t].err = "table_already_exists"
        /\ db[th[t].session_id].tables[th[t].table_name].rows # <<>>
        /\ \E k \in DOMAIN db[th[t].session_id].meta :
              db[th[t].session_id].meta[k] = th[t].table_name

\* C20: create_session_database on a session whose container exists
\* returns without error and leaves every container as it was.
C20_CreateIdempotent ==
    [][\A t \in Threads :
          ( /\ th[t].kind = "upload" /\ th[t].pc = "create_exists"
            /\ db[th[t].session_id].exists /\ th'[t] # th[t] )
          => /\ th'[t].pc = "load_parse" /\ th'[t].err = ""
             /\ UNCHANGED db]_vars

\* C20 witness: creation was called for a container that another upload
\* had completed in the meantime; its two metadata rows are in place.
C20_Witness ==
    \E t \in UploadThreads :
        /\ th[t].created = "existed"
        /\ DOMAIN db[th[t].session_id].meta = {MetaSessionId, MetaCreatedAt}
        /\ db[th[t].session_id].meta[MetaSessionId] = IntStr(th[t].session_id)

\* the /attestation responses that carry a document
Documents == {i \in 1..Len(issued) : issued[i].code = 200}
\* two responses issued less than 24 hours apart
WithinExpiry(i, j) ==
    /\ issued[i].attestation.generated_at - issued[j].attestation.generated_at < ExpiryHours
    /\ issued[j].attestation.generated_at - issued[i].attestation.generated_at < ExpiryHours
\* the fields of two documents other than those in `except` agree
SameExcept(i, j, except) ==
    /\ DOMAIN issued[i].attestation = DOMAIN issued[j].attestation
    /\ \A f \in DOMAIN issued[i].attestation \ except :
          issued[i].attestation[f] = issued[j].attestation[f]
\* the verifier's serialization of a document: its keys in sorted order
SortedKeySerialization(data) ==
    [i \in 1..Len(SortedKeys) |-> <<SortedKeys[i], data[SortedKeys[i]]>>]
\* the signature of response i verifies against the key in its document
SignatureVerifies(i) ==
    Verify(LoadPublicPem(issued[i].attestation.public_key),
           SortedKeySerialization(issued[i].attestation), issued[i].signature)
TimeFields == {"generated_at", "expires_at"}
InstanceFields == {"instance_id", "instance_name", "zone"}

\* C23 (as amended): two attestation documents issued by one instance less
\* than 24h apart have the same fields and the same values for everything
\* except generated_at, expires_at and the three instance metadata fields
\* (each the platform's value or null, as its fetch went), and every
\* document's signature over its sorted-key serialization verifies against
\* the public key in the document.
C23_DocumentsAgree ==
    /\ \A i, j \in Documents :
          WithinExpiry(i, j) => SameExcept(i, j, TimeFields \cup InstanceFields)
    /\ \A i \in Documents : SignatureVerifies(i)

\* C23 (as stated): the same, with only generated_at and expires_at allowed
\* to differ.
C23_DocumentsIdentical ==
    /\ \A i, j \in Documents : WithinExpiry(i, j) => SameExcept(i, j, TimeFields)
    /\ \A i \in Documents : SignatureVerifies(i)

\* C23 witness: two signed documents issued one clock step apart, alike
\* but for their times and for instance_id, which only one fetch obtained.
C23_Witness ==
    \E i, j \in Documents :
        /\ issued[j].attestation.generated_at =
               issued[i].attestation.generated_at + ClockStepHours
        /\ WithinExpiry(i, j)
        /\ SignatureVerifies(i) /\ SignatureVerifies(j)
        /\ SameExcept(i, j, TimeFields \cup {"instance_id"})
        /\ issued[i].attestation.instance_id = NoMetadata
        /\ issued[j].attestation.instance_id # NoMetadata

\* C24: a failed or timed-out metadata fetch never aborts issuance: every
\* /attestation is answered with a signed document, in which the field of
\* each fetch that failed is null and that of each fetch that succeeded
\* holds the platform's value.
C24_MetadataBestEffort ==
    \A i \in 1..Len(issued) :
        /\ issued[i].code = 200
        /\ SignatureVerifies(i)
        /\ \A k \in 1..3 :
              LET field == <<"instance_id", "instance_name", "zone">>[k]
              IN  issued[i].attestation[field] =
                      IF issued[i].fetched[k] THEN MetadataValue(MetadataKeys[k])
                      ELSE NoMetadata

\* C24 witness: a document was issued although all three fetches failed.
C24_Witness ==
    \E i \in Documents :
        /\ issued[i].fetched = <<FALSE, FALSE, FALSE>>
        /\ \A f \in InstanceFields : issued[i].attestation[f] = NoMetadata
        /\ SignatureVerifies(i)

\* C25: the code measurement is computed once, at startup: the precomputed
\* digest of the image when its file exists, the hash of the running code
\* otherwise; it never changes afterwards and every attestation carries it.
C25_MeasurementCached ==
    /\ [](tee.started =>
            tee.TEE_CODE_HASH = IF tee.hash_file THEN PrecomputedDigest
                                ELSE Sha256(CodeBytes))
    /\ [][tee.started => tee'.TEE_CODE_HASH = tee.TEE_CODE_HASH]_vars
    /\ [](\A i \in 1..Len(issued) :
            issued[i].attestation.code_measurement = tee.TEE_CODE_HASH)

\* C25 witness: two attestations issued at different times by an instance
\* whose image ships the digest; both carry it.
C25_Witness ==
    /\ tee.hash_file /\ Len(issued) = 2
    /\ issued[1].attestation.generated_at # issued[2].attestation.generated_at
    /\ issued[1].attestation.code_measurement = PrecomputedDigest
    /\ issued[2].attestation.code_measurement = PrecomputedDigest

\* C21: an /execute for a session whose container file does not exist is
\* rejected (400, "no database for session"): the step of the checks ends the
\* request, nothing is submitted to the engine, and no container is created
\* or changed; whenever a statement has been submitted, the container of the
\* request's session exists.
C21_MissingContainerRejected ==
    /\ [][\A t \in Threads :
            (th[t].pc = "exec_validate" /\ ~ContainerExists(th[t].session_id)
               /\ th'[t] # th[t])
            => /\ th'[t].pc = "done" /\ th'[t].resp = 400
               /\ th'[t].err = "no_database_for_session"
               /\ th'[t].engine = <<>> /\ th'[t].rows = <<>>
               /\ db' = db]_vars
    /\ [](\A t \in Threads :
            th[t].engine # <<>> => ContainerExists(th[t].session_id))

\* C21 witness: an /execute of a session without a container was rejected
\* while another session has its container, and the session's own is still
\* absent.
C21_Witness ==
    \E t \in Threads, s \in Sessions :
        /\ th[t].kind = "execute" /\ th[t].pc = "done" /\ th[t].session_id = s
        /\ th[t].resp = 400 /\ th[t].err = "no_database_for_session"
        /\ th[t].engine = <<>>
        /\ ~db[s].exists
        /\ \E o \in Sessions \ {s} : db[o].exists

\* the bundles whose key unwrap or AEAD authentication fails
FailingBundles == BundleShapes \ {"good"}

\* C28: an upload whose key unwrap or AEAD authentication fails (the key
\* wrapped for another recipient, the wrong data key, the wrong nonce, a
\* tampered ciphertext) is rejected in the step that receives it and is not
\* taken up again: it answers 500 with the error alone, holds no plaintext,
\* and its step leaves the Session Key registry, the Dataset Record
\* registry, the containers and the key source unchanged.
C28_CryptoFailureRejected ==
    /\ [][\A t \in Threads :
            (th[t].pc = "idle" /\ th'[t].kind = "upload"
               /\ th'[t].bundle \in FailingBundles)
            => /\ th'[t].pc = "done" /\ th'[t].resp = 500
               /\ th'[t].err \in {"key_unwrap_failed", "aead_failed"}
               /\ th'[t].body = ErrorBody(th'[t].err)
               /\ th'[t].csv = <<>>
               /\ UNCHANGED <<SESSION_KEYS, DATASETS, db, nextKey>>]_vars
    /\ [](\A t \in Threads :
            th[t].bundle \in FailingBundles
            => /\ th[t].pc = "done" /\ th[t].resp = 500 /\ th[t].csv = <<>>
               /\ th[t].storage_key = None /\ th[t].created = "")

\* C28 witness: one upload failed at the key unwrap and another at the AEAD
\* authentication of a tampered ciphertext; nothing has been created.
C28_Witness ==
    \E t, u \in Threads :
        /\ th[t].pc = "done" /\ th[t].bundle = "wrapped_for_other"
        /\ th[t].err = "key_unwrap_failed" /\ th[t].resp = 500
        /\ th[u].pc = "done" /\ th[u].bundle = "tampered"
        /\ th[u].err = "aead_failed" /\ th[u].resp = 500
        /\ DATASETS = EmptyDict /\ SESSION_KEYS = EmptyDict
        /\ \A s \in Sessions : ~db[s].exists

\* the key resolved for a Dataset Record: the Session Key of its session
\* when it is session-bound, its own dataset-scoped key otherwise
ResolvedKey(record) ==
    IF record.session_id # None THEN SESSION_KEYS[record.session_id]
    ELSE record.storage_key

\* C29: every stored Dataset Record decrypts, with its stored nonce and
\* under the key resolved for it, to the plaintext the client uploaded, and
\* its checksum is the digest of that plaintext.
C29_StoredRoundTrip ==
    /\ [](\A d \in DOMAIN DATASETS :
            LET dec == AesGcmDecrypt(ResolvedKey(DATASETS[d]), DATASETS[d].iv,
                                     DATASETS[d].encrypted_data)
            IN  dec.ok /\ DATASETS[d].checksum = Sha256(dec.data))
    /\ [][\A t \in Threads :
            (th[t].pc = "store" /\ th'[t].pc = "done")
            => LET record == DATASETS'[th[t].dataset_id]
               IN  /\ record.encrypted_data.data = Plaintext(th[t].csv)
                   /\ record.checksum = Sha256(Plaintext(th[t].csv))]_vars

\* C29, under the key the record itself names: the stored ciphertext
\* decrypts to the uploaded plaintext, whose digest the checksum is
C29_RoundTripUnderStoredKey ==
    /\ [](\A d \in DOMAIN DATASETS :
            LET dec == AesGcmDecrypt(DATASETS[d].storage_key, DATASETS[d].iv,
                                     DATASETS[d].encrypted_data)
            IN  dec.ok /\ DATASETS[d].checksum = Sha256(dec.data))
    /\ [][\A t \in Threads :
            (th[t].pc = "store" /\ th'[t].pc = "done")
            => LET record == DATASETS'[th[t].dataset_id]
               IN  /\ AesGcmDecrypt(record.storage_key, record.iv,
                                     record.encrypted_data).data = Plaintext(th[t].csv)
                   /\ record.checksum = Sha256(Plaintext(th[t].csv))]_vars

\* the fields under which the program holds secret key material: the
\* storage_key of a Dataset Record, the values of SESSION_KEYS, the AES key
\* of a bundle, TEE_PRIVATE_KEY
KeyBearingFields ==
    {"storage_key", "session_key", "key", "encrypted_key", "private_key",
     "TEE_PRIVATE_KEY"}

\* the fields of the responses the handlers build
ResponseFields ==
    {"status", "dataset_id", "checksum", "row_count", "query_id", "error"}

\* C26: no secret key material is exported.  Every response body carries
\* only a status, identifiers, a row count, an error kind and the digest of
\* the uploaded plaintext; no report to the control plane and no container
\* file has a field holding a key; and the key the attestation document
\* publishes is the public half of the identity pair.
C26_NoKeyExported ==
    /\ \A t \in Threads :
          /\ DOMAIN th[t].body \subseteq ResponseFields
          /\ DOMAIN th[t].body \cap KeyBearingFields = {}
          /\ (th[t].kind = "upload" /\ th[t].resp = 200)
             => th[t].body.checksum = Sha256(Plaintext(th[t].csv))
          /\ \A i \in 1..Len(th[t].notified) :
                DOMAIN th[t].notified[i] \cap KeyBearingFields = {}
    /\ \A s \in Sessions : DOMAIN db[s] \cap KeyBearingFields = {}
    /\ LET document == AttestationData(tee, Null, Null, Null, tee.clock)
       IN  /\ DOMAIN document \cap KeyBearingFields = {}
           /\ document.public_key = PublicPem(PublicKey(tee.TEE_PRIVATE_KEY.pair))
           /\ document.public_key.pem = "PUBLIC KEY"

\* C26 witness: a session-bound upload and an independent one have both
\* been answered with success while the Session Key registry and the
\* records hold their keys.
C26_Witness ==
    \E t, u \in Threads :
        /\ th[t].kind = "upload" /\ th[t].pc = "done" /\ th[t].resp = 200
        /\ th[t].session_id \in DOMAIN SESSION_KEYS
        /\ th[u].kind = "upload" /\ th[u].pc = "done" /\ th[u].resp = 200
        /\ th[u].session_id = None /\ th[u].storage_key # None
        /\ th[u].dataset_id \in DOMAIN DATASETS
        /\ DATASETS[th[u].dataset_id].storage_key = th[u].storage_key
        /\ "checksum" \in DOMAIN th[u].body

\* the lines of dataset plaintext the worker holds: those of the CSV of
\* every request in progress and the rows of every table of every container
DataLines ==
    UNION {{CsvLine(th[t].csv[i]) : i \in 1..Len(th[t].csv)} : t \in Threads}
    \cup UNION {UNION {{CsvLine(db[s].tables[n].rows[i]) :
                            i \in 1..Len(db[s].tables[n].rows)} :
                       n \in DOMAIN db[s].tables} : s \in Sessions}

\* C27: no log record written by an upload or a query, on success or on an
\* error path, holds a line of dataset plaintext: what a record formats into
\* its message are numbers (identifiers, sizes, counts), the table name of
\* the request and the fixed wording of an error.
C27_PlaintextNotLogged ==
    \A t \in Threads : \A i \in 1..Len(th[t].logged) :
        LET rec == th[t].logged[i]
        IN  /\ \A line \in DataLines : ~Contains(rec.text, line)
            /\ rec.text \in {<<>>, th[t].table_name}
            /\ \A k \in 1..Len(rec.n) : rec.n[k] \in Nat

\* C27 witness: one upload was decrypted, loaded and logged as such, and
\* another of the same table failed in load_dataset and was logged by both
\* except clauses, the table name in the message.
C27_Witness ==
    \E t, u \in Threads :
        /\ th[t].kind = "upload" /\ th[t].pc = "done" /\ th[t].resp = 200
        /\ \E i, j \in 1..Len(th[t].logged) :
              /\ th[t].logged[i].line = 296
              /\ th[t].logged[i].n = <<PlaintextSize(Plaintext(th[t].csv))>>
              /\ th[t].logged[j].line = 180 /\ th[t].logged[j].text = th[t].table_name
        /\ th[u].kind = "upload" /\ th[u].pc = "done" /\ th[u].resp = 500
        /\ th[u].err = "table_already_exists"
        /\ \E i, j \in 1..Len(th[u].logged) :
              /\ th[u].logged[i].line = 195 /\ th[u].logged[i].file = QE
              /\ th[u].logged[j].line = 372 /\ th[u].logged[j].text = th[u].table_name

\* what belongs to session B: its Session Key, its container with its
\* tables, and the Dataset Records bound to it
SessionKeyOf(keys, B) == IF B \in DOMAIN keys THEN keys[B] ELSE None
RecordsOf(records, B) ==
    {<<d, records[d]>> : d \in {x \in DOMAIN records : records[x].session_id = B}}

\* C22: operations on different sessions are independent.  A step of a
\* request for session A leaves the Session Key, the container and the
\* Dataset Records of every other session B as they were.
C22_SessionsIndependent ==
    [][\A t \in Threads : \A B \in Sessions :
          (th'[t] # th[t] /\ th'[t].session_id \in Sessions
             /\ th'[t].session_id # B)
          => /\ SessionKeyOf(SESSION_KEYS', B) = SessionKeyOf(SESSION_KEYS, B)
             /\ db'[B] = db[B]
             /\ RecordsOf(DATASETS', B) = RecordsOf(DATASETS, B)]_vars

\* C22, for keys and containers alone: a step of a request for session A
\* leaves the Session Key and the container of every other session as they
\* were
C22_KeysAndContainersIndependent ==
    [][\A t \in Threads : \A B \in Sessions :
          (th'[t] # th[t] /\ th'[t].session_id \in Sessions
             /\ th'[t].session_id # B)
          => /\ SessionKeyOf(SESSION_KEYS', B) = SessionKeyOf(SESSION_KEYS, B)
             /\ db'[B] = db[B]]_vars

\* s matches ^[a-z][a-z0-9_]*$
MatchesIdentifier(s) ==
    /\ Len(s) >= 1
    /\ IsLower(s[1])
    /\ \A i \in 1..Len(s) : IsLower(s[i]) \/ s[i] \in Digits \/ s[i] = "_"

\* C30: _sanitize_table_name returns, for every name (the empty one and
\* those made only of characters outside [a-z0-9_] included), an identifier
\* matching ^[a-z][a-z0-9_]*$, and returns an identifier it made unchanged.
C30_SanitizeIdentifier ==
    /\ san.calls >= 1 => MatchesIdentifier(san.out)
    /\ san.calls = 2 => san.again = san.out

\* C30 witness: a name of three characters outside [a-z0-9_] was sanitized
\* to the prefixed identifier, which sanitizing again left as it was.
C30_Witness ==
    /\ san.calls = 2
    /\ Len(san.name) = 3
    /\ \A i \in 1..3 : san.name[i] \in {"-", " ", "é"}
    /\ san.out = <<"t","a","b","l","e","_","_","_","_">>
    /\ san.again = san.out

\* the rows of the api_keys table that are deactivated
Deactivated == {id \in 1..Len(api_keys.table) : ~api_keys.table[id].is_active}

\* C31: a deactivated API key never authenticates again.  get_by_key and
\* get_user_by_api_key return nothing for it; a request whose key it is, is
\* answered 401 'Invalid API key' and logs nobody in; and no request makes
\* a deactivated row active.
C31_DeactivatedNeverAuthenticates ==
    /\ [](\A id \in Deactivated :
            /\ get_by_key(api_keys.table, KeyString(id)) = 0
            /\ get_user_by_api_key(api_keys.table, KeyString(id)).user = 0)
    /\ [][\A id \in Deactivated :
            /\ id \in 1..Len(api_keys'.table) /\ ~api_keys'.table[id].is_active
            /\ (api_keys'.ops # api_keys.ops /\ api_keys'.last.op = "api"
                  /\ \/ api_keys'.last.auth_header = BearerPrefix \o KeyString(id)
                     \/ /\ ~StartsWith(api_keys'.last.auth_header, BearerPrefix)
                        /\ api_keys'.last.x_api_key = KeyString(id)
                     \/ /\ ~StartsWith(api_keys'.last.auth_header, BearerPrefix)
                        /\ api_keys'.last.x_api_key = <<>>
                        /\ api_keys'.last.query_param = KeyString(id))
               => /\ api_keys'.last.status = 401
                  /\ api_keys'.last.error = "Invalid API key"
                  /\ api_keys'.last.user = 0
                  /\ api_keys'.table = api_keys.table]_vars

\* C31 witness: key 1 authenticated a request, was deleted by its owner, and
\* the next request presenting it was answered 401 'Invalid API key'.
C31_Witness ==
    /\ api_keys.last.op = "api"
    /\ api_keys.last.auth_header = BearerPrefix \o KeyString(1)
    /\ api_keys.last.status = 401 /\ api_keys.last.error = "Invalid API key"
    /\ Len(api_keys.table) >= 1
    /\ ~api_keys.table[1].is_active /\ api_keys.table[1].used

\* C32: no user holds more than 10 active API keys, whatever create and
\* delete requests were served and however they interleaved.
C32_AtMostTenKeys ==
    \A user \in Users : ActiveCount(api_keys.table, user) <= KeyLimit

\* C32, the check of one request alone: a create request that counts 10
\* active keys of its user is refused on the spot and adds no row
C32_CreateRefusedAtLimit ==
    [][\A t \in WebThreads : \A user \in Users :
          (api_keys'.ops # api_keys.ops /\ api_keys'.last.op = "create"
             /\ api_keys'.last.user = user /\ api_keys'.last # api_keys.last
             /\ ActiveCount(api_keys.table, user) >= KeyLimit)
          => /\ api_keys'.last.error \in {"maximum_reached", "name_required"}
             /\ api_keys'.table = api_keys.table
             /\ api_keys'.web = api_keys.web]_vars

\* C33: a delete or rename request for a key of another user leaves the
\* api_keys table, and with it the key's is_active flag and name, as it was.
C33_ForeignKeyUntouched ==
    [][(/\ api_keys'.ops # api_keys.ops
        /\ api_keys'.last.op \in {"delete", "rename"}
        /\ api_keys'.last.key_id \in 1..Len(api_keys.table)
        /\ api_keys.table[api_keys'.last.key_id].user_id # api_keys'.last.user)
       => /\ api_keys'.table = api_keys.table
          /\ api_keys'.last.error = "no_permission"]_vars

\* C33 witness: user 2 asked to delete the active key 1 of user 1, not as
\* the first request served, and the key is active under its name.
C33_Witness ==
    /\ api_keys.last.op = "delete" /\ api_keys.last.user = 2
    /\ api_keys.last.key_id = 1 /\ api_keys.last.error = "no_permission"
    /\ api_keys.ops >= 2
    /\ Len(api_keys.table) >= 1
    /\ api_keys.table[1] = APIKey(1, <<"a">>)

\* the key an 'Authorization: Bearer <key>' header carries (<<>>: none)
BearerKey(auth_header) ==
    IF StartsWith(auth_header, BearerPrefix)
    THEN SubSeq(auth_header, Len(BearerPrefix) + 1, Len(auth_header))
    ELSE <<>>

\* the key that decides a request by the order Bearer, X-API-Key, api_key
DecidingKey(auth_header, x_api_key, query_param) ==
    IF BearerKey(auth_header) # <<>> THEN BearerKey(auth_header)
    ELSE IF x_api_key # <<>> THEN x_api_key
    ELSE query_param

DatasetTableKeys == {MetaDatasetTable(d) : d \in DatasetIds}

\* C37: in every reachable state of a session container the metadata table
\* holds exactly one table-name entry for each dataset table, and every
\* table-name entry names a table of the container.
C37_MetadataMatchesTables ==
    \A s \in Sessions :
        /\ \A tn \in DOMAIN db[s].tables :
              Cardinality({k \in DatasetTableKeys \cap DOMAIN db[s].meta :
                              db[s].meta[k] = tn}) = 1
        /\ \A k \in DatasetTableKeys \cap DOMAIN db[s].meta :
              db[s].meta[k] \in DOMAIN db[s].tables

\* C37, the half the code keeps: every table-name entry names a table of
\* the container, and no table has two entries.
C37_EntriesNameTables ==
    \A s \in Sessions :
        /\ \A k \in DatasetTableKeys \cap DOMAIN db[s].meta :
              db[s].meta[k] \in DOMAIN db[s].tables
        /\ \A k1, k2 \in DatasetTableKeys \cap DOMAIN db[s].meta :
              db[s].meta[k1] = db[s].meta[k2] => k1 = k2

\* C37: a failed upload is over and its table is in the container without
\* a metadata entry
C37_OrphanTable ==
    \E t \in UploadThreads :
        /\ th[t].pc = "done" /\ th[t].err = "incorrect_number_of_bindings"
        /\ th[t].table_name \in DOMAIN db[th[t].session_id].tables
        /\ \A k \in DOMAIN db[th[t].session_id].meta :
              db[th[t].session_id].meta[k] # th[t].table_name

\* the class of the exception behind an error of /upload: ValueError is
\* raised by the handler's own validation (tee_server.py:298-322), by
\* load_dataset for duplicate columns and an existing table
\* (query_executor.py:131-153) and by RSA-OAEP decryption (281-288);
\* AESGCM.decrypt raises InvalidTag (295); the engine raises sqlite3 errors
ExceptionClass(e) ==
    IF e \in {"not_utf8", "csv_empty_or_malformed", "csv_no_header", "csv_no_data_rows",
              "csv_stop_iteration", "duplicate_columns", "table_already_exists",
              "key_unwrap_failed"}
    THEN "ValueError"
    ELSE IF e = "aead_failed" THEN "InvalidTag"
    ELSE IF e = "key_error" THEN "KeyError"
    ELSE "sqlite3.Error"

\* what the caller of a failed /upload can tell apart without reading the
\* message text: the HTTP status and the class of the error.  upload_dataset
\* has one handler for every exception (tee_server.py:371-373)
OutcomeKind(r) == <<r.resp, ExceptionClass(r.err)>>

ValidationReasons ==
    {"csv_empty_or_malformed", "csv_no_header", "csv_no_data_rows", "duplicate_columns"}
CryptoReasons == {"key_unwrap_failed", "aead_failed"}
ConflictReasons == {"table_already_exists"}

\* the uploads that ended with one of the reasons
FailedWith(reasons) ==
    {t \in UploadThreads : th[t].pc = "done" /\ th[t].err \in reasons}

\* C36: an upload rejected for a validation reason produces an error outcome
\* of a different kind from one rejected for a cryptographic reason, and a
\* table conflict produces a kind distinct from both.
C36_KindsDistinct ==
    /\ \A v \in FailedWith(ValidationReasons), c \in FailedWith(CryptoReasons) :
          OutcomeKind(th[v]) # OutcomeKind(th[c])
    /\ \A x \in FailedWith(ConflictReasons),
          o \in FailedWith(ValidationReasons \cup CryptoReasons) :
          OutcomeKind(th[x]) # OutcomeKind(th[o])

\* C36, what the code does keep apart: the message text of the three kinds
C36_MessagesDistinct ==
    /\ \A v \in FailedWith(ValidationReasons), c \in FailedWith(CryptoReasons) :
          th[v].body # th[c].body
    /\ \A x \in FailedWith(ConflictReasons),
          o \in FailedWith(ValidationReasons \cup CryptoReasons) :
          th[x].body # th[o].body

\* C35: when a session is torn down (its container deleted) its Session Key
\* is destroyed: after the teardown the key registry holds no key for that
\* session.
C35_TeardownDestroysKey ==
    [][\A s \in Sessions :
          (db[s].exists /\ ~db'[s].exists) => s \notin DOMAIN SESSION_KEYS']_vars

\* C35: after a teardown, an upload to the same session id was handed the
\* key that a Dataset Record from before the teardown was stored under
C35_OldKeyReused ==
    \E t \in UploadThreads, d \in DOMAIN DATASETS :
        /\ th[t].pc = "load_exists"
        /\ ~db[th[t].session_id].exists
        /\ DATASETS[d].session_id = th[t].session_id
        /\ DATASETS[d].storage_key = th[t].storage_key

\* C38, its second half: each participant's approval is counted at most
\* once, also when approvals arrive concurrently
C38_CountedOnce ==
    \A i, j \in DOMAIN plane.approvals :
        plane.approvals[i] = plane.approvals[j] => i = j

\* C38: the control plane dispatches a query to /execute only when, at that
\* moment, every participant of the query's session has a recorded approval
\* for it; and each participant's approval is counted at most once.
C38_UnanimousAtDispatch ==
    /\ \A i \in DOMAIN plane.dispatched :
          plane.dispatched[i].participants \subseteq plane.dispatched[i].approvers
    /\ C38_CountedOnce

\* C38: what the gate does ensure: a dispatching handler counted as many
\* approvals as the session had participants when it counted
C38_GateAtCount ==
    \A t \in WebThreads :
        plane.web[t].pc \in {"post", "tee", "response"} =>
            /\ plane.session.require_unanimous_approval
            /\ plane.web[t].approval_count >= plane.web[t].participant_count

\* the states of a query before COMPLETED (models/tee.py:27-35)
BeforeCompleted == {"submitted", "verifying", "approved", "executing"}

\* C39: once the 'completed' callback of an executed query has been
\* processed, the query's status is COMPLETED and never returns to EXECUTING
\* or an earlier state, whatever the order of the /execute response and the
\* callback.
C39_CompletedIsFinal ==
    [][plane.query = "completed" => plane'.query \notin BeforeCompleted]_vars

\* C39: the order the claim's other half is about: the response of /execute
\* handled first, the callback after it; the query ends COMPLETED
C39_ResponseThenCallback ==
    [][(plane.query = "executing" /\ "completed" \in plane.callbacks
            /\ "completed" \notin plane'.callbacks)
          => plane'.query = "completed"]_vars

\* C39: the 'completed' callback has been processed and the handler that
\* dispatched the query is about to read the TEE's 200
C39_CompletedBeforeResponse ==
    /\ plane.query = "completed"
    /\ \E t \in WebThreads :
          plane.web[t].pc = "response" /\ plane.web[t].status_code = 200

\* C40: no query is dispatched to the TEE while its session is not ACTIVE,
\* and while the session is suspended or closed no query of it becomes
\* APPROVED or EXECUTING.
C40_NoDispatchUnlessActive ==
    [][/\ \A i \in DOMAIN plane'.dispatched :
             i \notin DOMAIN plane.dispatched =>
                 plane'.dispatched[i].session_status = "active"
       /\ (plane.session.status # "active" /\ plane'.query # plane.query)
             => plane'.query \notin {"approved", "executing"}]_vars

\* C40: the submission is what the code does guard: no query is created in
\* a session that is not ACTIVE
C40_NoSubmitUnlessActive ==
    [][(plane.query = NoQuery /\ plane'.query # NoQuery)
          => plane.session.status = "active"]_vars

\* C40: a query dispatched while its session was suspended or closed
C40_ApprovedAfterSuspend ==
    /\ plane.session.status # "active"
    /\ Len(plane.dispatched) = 1
    /\ plane.dispatched[1].session_status # "active"
    /\ \E t \in WebThreads : plane.web[t].pc = "tee"

=============================================================================
